---------------------------- MODULE Spec2Model ----------------------------
(***************************************************************************)
(* A model of the Mano compiler front end: the lexer (src/src/Lexer.h,     *)
(* src/src/Lexer.cpp), the recursive-descent parser (src/src/Parser.cpp)   *)
(* and the three-pass semantic analyzer (src/src/SemanticAnalyzer.h over   *)
(* the node types of src/src/AST.h).                                       *)
(*                                                                         *)
(* Text is modelled as a sequence of one-character strings, so that the    *)
(* scanners can index it; Str turns such a sequence into a string for      *)
(* comparison with the literals of the source.                             *)
(***************************************************************************)
EXTENDS Integers, Sequences, FiniteSets, TLC

VARIABLES
    pc,       \* position of the driver: which stage runs next
    ub,       \* what this build does on undefined behaviour
    lexer,    \* Lexer: source, offset, line, column
    tokens,   \* the vector Tokenize fills
    parser,   \* Parser: m_current, the text written to stderr, exit status
    ast,      \* the ASTNodePtr ParseProgram returned (Null before)
    sa,       \* SemanticAnalyzer: root, scopeStack, errors, ... and Analyze's progress
    compat,   \* one call of CheckTypeCompatibility: its arguments and its result
    reporter  \* an ErrorReporter: m_phase, m_errors

vars == <<pc, ub, lexer, tokens, parser, ast, sa, compat, reporter>>

(***************************************************************************)
(* Bounds of the model.                                                    *)
(***************************************************************************)
\* longest source text of the exhaustive lexer sweep
MaxSrcLen == 3

(***************************************************************************)
(* Strings.                                                                *)
(***************************************************************************)
RECURSIVE Str(_)
Str(cs) == IF cs = <<>> THEN "" ELSE Head(cs) \o Str(Tail(cs))

Lower == {"a","b","c","d","e","f","g","h","i","j","k","l","m",
          "n","o","p","q","r","s","t","u","v","w","x","y","z"}
Upper == {"A","B","C","D","E","F","G","H","I","J","K","L","M",
          "N","O","P","Q","R","S","T","U","V","W","X","Y","Z"}
Digit == {"0","1","2","3","4","5","6","7","8","9"}

isalpha(c) == c \in Lower \cup Upper
isdigit(c) == c \in Digit
isalnum(c) == isalpha(c) \/ isdigit(c)
isspace(c) == c \in {" ", "\t", "\n", "\r", "\f"}

(***************************************************************************)
(* Undefined behaviour.  Reading through a null or dangling pointer has no *)
(* defined outcome; a build either traps (the process dies) or goes on     *)
(* with whatever it read.  ub fixes the build's answer for a run.          *)
(***************************************************************************)
\* the type name a read through a null TypeNode* yields when it does not trap
GarbageNames == {<<"v","o","i","d">>, <<"?">>}

UBOutcomes ==
    {[trap |-> TRUE, name |-> <<"?">>, view |-> "gone"]}
    \cup {[trap |-> FALSE, name |-> n, view |-> v] :
            n \in GarbageNames, v \in {"kept", "gone"}}

(***************************************************************************)
(* Lexer (src/src/Lexer.cpp).  A lexer state L is                          *)
(* [source, offset, line, column]; offset counts from 0 as in the source.  *)
(***************************************************************************)
Lexer(source) == [source |-> source, offset |-> 0, line |-> 1, column |-> 1]

LexIsAtEnd(L) == L.offset >= Len(L.source)

LexPeek(L) == L.source[L.offset + 1]

\* char Advance(): the state after it; the character returned is LexPeek(L)
LexAdvance(L) ==
    IF LexPeek(L) = "\n"
    THEN [L EXCEPT !.offset = @ + 1, !.line = @ + 1, !.column = 1]
    ELSE [L EXCEPT !.offset = @ + 1, !.column = @ + 1]

RECURSIVE SkipWhitespace(_)
SkipWhitespace(L) ==
    IF ~LexIsAtEnd(L) /\ isspace(LexPeek(L))
    THEN SkipWhitespace(LexAdvance(L))
    ELSE L

\* source.substr(start, count), start counted from 0; count is a size_t, so
\* a count of -1 wraps to npos and the substring runs to the end
Substr(source, start, count) ==
    LET n == IF count < 0 \/ start + count > Len(source)
             THEN Len(source) - start ELSE count
    IN SubSeq(source, start + 1, start + n)

CreateToken(L, tokenType, lexeme) ==
    [type |-> tokenType, lexeme |-> lexeme, line |-> L.line, column |-> L.column]

IsKeyword(text) ==
    Str(text) \in {"var", "fun", "class", "enum",
                   "if", "else", "for", "while",
                   "break", "continue", "return",
                   "int", "uint", "float", "bool", "string"}

RECURSIVE ScanIdentifierLoop(_)
ScanIdentifierLoop(L) ==
    IF ~LexIsAtEnd(L) /\ (isalnum(LexPeek(L)) \/ LexPeek(L) = "_")
    THEN ScanIdentifierLoop(LexAdvance(L))
    ELSE L

\* every Scan* yields [tok, L]: the token and the lexer state after it
ScanIdentifier(L) ==
    LET start == L.offset
        L1 == ScanIdentifierLoop(L)
        text == Substr(L.source, start, L1.offset - start)
    IN [tok |-> CreateToken(L1, IF IsKeyword(text) THEN "Keyword" ELSE "Identifier", text),
        L |-> L1]

RECURSIVE ScanDigits(_)
ScanDigits(L) ==
    IF ~LexIsAtEnd(L) /\ isdigit(LexPeek(L))
    THEN ScanDigits(LexAdvance(L))
    ELSE L

ScanNumber(L) ==
    LET start == L.offset
        L1 == ScanDigits(L)
        L2 == IF ~LexIsAtEnd(L1) /\ LexPeek(L1) = "."
              THEN ScanDigits(LexAdvance(L1))
              ELSE L1
    IN [tok |-> CreateToken(L2, "Number", Substr(L.source, start, L2.offset - start)),
        L |-> L2]

RECURSIVE ScanStringLoop(_, _)
ScanStringLoop(L, quote) ==
    IF ~LexIsAtEnd(L) /\ LexPeek(L) # quote
    THEN IF LexPeek(L) = "\\"
         THEN LET L1 == LexAdvance(L)
              IN ScanStringLoop(IF ~LexIsAtEnd(L1) THEN LexAdvance(L1) ELSE L1, quote)
         ELSE ScanStringLoop(LexAdvance(L), quote)
    ELSE L

ScanString(L) ==
    LET quote == LexPeek(L)
        L0 == LexAdvance(L)
        start == L0.offset
        L1 == ScanStringLoop(L0, quote)
        L2 == IF ~LexIsAtEnd(L1) THEN LexAdvance(L1) ELSE L1
    IN [tok |-> CreateToken(L2, "String", Substr(L.source, start, L2.offset - start - 1)),
        L |-> L2]

IsOperator(c) ==
    c \in {"+", "-", "*", "/", "=", "!", "<", ">", "&", "|", "%"}

ScanOperator(L) ==
    LET start == L.offset
        first == LexPeek(L)
        L1 == LexAdvance(L)
        L2 == IF ~LexIsAtEnd(L1)
              THEN LET next == LexPeek(L1)
                   IN IF \/ (first = "=" /\ next = "=")
                         \/ (first = "!" /\ next = "=")
                         \/ (first = "<" /\ next = ">")
                      THEN LexAdvance(L1)
                      ELSE L1
              ELSE L1
    IN [tok |-> CreateToken(L2, "Operator", Substr(L.source, start, L2.offset - start)),
        L |-> L2]

IsPunctuation(c) ==
    c \in {"(", ")", "{", "}", "[", "]", ",", ":", ";"}

\* ScanPunctuation without its Advance(): the token is made and the
\* offset stays
ScanPunctuationStuck(L) ==
    [tok |-> CreateToken(L, "Punctuation", <<LexPeek(L)>>), L |-> L]

ScanPunctuation(L) ==
    LET start == L.offset
        L1 == LexAdvance(L)
    IN [tok |-> CreateToken(L1, "Punctuation", Substr(L.source, start, L1.offset - start)),
        L |-> L1]

\* The Unknown token's lexeme is a string_view of the local `current`, which
\* is gone when NextToken returns: u.view says what a later read finds.
NextToken(L0, u) ==
    LET L == SkipWhitespace(L0)
    IN IF LexIsAtEnd(L) THEN [tok |-> CreateToken(L, "EndOfFile", <<>>), L |-> L]
       ELSE LET current == LexPeek(L)
            IN IF isalpha(current) \/ current = "_" THEN ScanIdentifier(L)
               ELSE IF isdigit(current) THEN ScanNumber(L)
               ELSE IF current = "\"" THEN ScanString(L)
               ELSE IF IsOperator(current) THEN ScanOperator(L)
               ELSE IF IsPunctuation(current) THEN ScanPunctuation(L)
               ELSE LET L1 == LexAdvance(L)
                    IN [tok |-> CreateToken(L1, "Unknown",
                                   IF u.view = "kept" THEN <<current>> ELSE <<"?">>),
                        L |-> L1]

\* Tokenize as a function of the source: the do-while loop of Lexer::Tokenize
RECURSIVE TokenizeLoop(_, _, _)
TokenizeLoop(L, u, acc) ==
    LET r == NextToken(L, u)
    IN IF r.tok.type = "EndOfFile" THEN Append(acc, r.tok)
       ELSE TokenizeLoop(r.L, u, Append(acc, r.tok))

Tokenize(source, u) == TokenizeLoop(Lexer(source), u, <<>>)


(***************************************************************************)
(* AST (src/src/AST.h).  A node is a record with its nodeType and `id`,    *)
(* the identity make_unique gave it (its allocation number); the parser's  *)
(* names `type` and `increment` (src/src/Parser.h) are the analyzer's      *)
(* declaredType and update.  A TypeNode is [name, array, isConst].         *)
(***************************************************************************)
Null == [nodeType |-> "Null"]

TypeNode(name, isConst) ==
    [nodeType |-> "Type", name |-> name, array |-> FALSE, isConst |-> isConst]

(***************************************************************************)
(* Parser (src/src/Parser.cpp).  A parser state P is                       *)
(* [m_tokens, m_current, stderr, exited, nextId]: stderr is what was       *)
(* written to std::cerr, exited says std::exit(1) was called, after which  *)
(* nothing more of the parser runs.                                        *)
(***************************************************************************)
\* a Parser whose cursor starts one token in
ParserPastStart(toks) ==
    [m_tokens |-> toks, m_current |-> 1, stderr |-> <<>>, exited |-> FALSE,
     nextId |-> 1, read |-> {}]

Parser(toks) ==
    [m_tokens |-> toks, m_current |-> 0, stderr |-> <<>>, exited |-> FALSE,
     nextId |-> 1, read |-> {}]

\* m_tokens[i], i counted from 0 as in the source.  operator[] does not
\* check i: outside the vector it yields whatever lies there, a token no
\* scanner made; ub fixes what its type reads as.
At(P, i) ==
    IF i + 1 \in DOMAIN P.m_tokens THEN P.m_tokens[i + 1]
    ELSE [type |-> IF ub.view = "kept" THEN "EndOfFile" ELSE "Unknown",
          lexeme |-> <<>>, line |-> 0, column |-> 0]

IsAtEnd(P) == At(P, P.m_current).type = "EndOfFile"

Peek(P) == At(P, P.m_current)

Previous(P) == At(P, P.m_current - 1)

\* the lexeme of the current token, as a string
Lx(P) == Str(Peek(P).lexeme)

\* const Token& Advance(): the state after it; it returns Previous() of that
\* state.  P.read collects the indices it hands to m_tokens[]: m_current
\* in IsAtEnd() and m_current - 1 in the Previous() it returns; the
\* Previous() of a Parse method follows a Match that advanced and reads the
\* index that Advance read.
Advance(P) ==
    IF P.exited THEN P
    ELSE LET m_current == IF IsAtEnd(P) THEN P.m_current ELSE P.m_current + 1
         IN [P EXCEPT !.m_current = m_current,
                      !.read = @ \cup {P.m_current, m_current - 1}]

CheckType(P, type) == IF IsAtEnd(P) THEN FALSE ELSE Peek(P).type = type

\* ErrorAtCurrent reading Previous() where the source reads Peek()
ErrorAtCurrentPrevious(P, message) ==
    IF P.exited THEN P
    ELSE LET token == IF P.m_current >= 1 THEN Previous(P) ELSE Peek(P)
         IN [P EXCEPT !.stderr = Append(@,
                 [line |-> token.line, column |-> token.column, message |-> message,
                  text |-> "[Line " \o ToString(token.line) \o ", Column "
                           \o ToString(token.column) \o "] Error: " \o message,
                  at |-> P.m_current]),
             !.exited = TRUE]

ErrorAtCurrent(P, message) ==
    IF P.exited THEN P
    ELSE LET token == Peek(P)
         IN [P EXCEPT !.stderr = Append(@,
                 [line |-> token.line, column |-> token.column, message |-> message,
                  text |-> "[Line " \o ToString(token.line) \o ", Column "
                           \o ToString(token.column) \o "] Error: " \o message,
                  at |-> P.m_current]),
             !.exited = TRUE]

\* Match, MatchKeyword, MatchPunctuation yield [ok, P]
Match(P, types) ==
    IF ~P.exited /\ \E i \in 1..Len(types) : CheckType(P, types[i])
    THEN [ok |-> TRUE, P |-> Advance(P)]
    ELSE [ok |-> FALSE, P |-> P]

MatchKeyword(P, expected) ==
    IF ~P.exited /\ CheckType(P, "Keyword") /\ Lx(P) = expected
    THEN [ok |-> TRUE, P |-> Advance(P)]
    ELSE [ok |-> FALSE, P |-> P]

MatchPunctuation(P, expected) ==
    IF ~P.exited /\ CheckType(P, "Punctuation") /\ Lx(P) = expected
    THEN [ok |-> TRUE, P |-> Advance(P)]
    ELSE [ok |-> FALSE, P |-> P]

\* Consume yields [tok, P]
Consume(P, type, message) ==
    IF CheckType(P, type)
    THEN LET P1 == Advance(P) IN [tok |-> Previous(P1), P |-> P1]
    ELSE [tok |-> Peek(P), P |-> ErrorAtCurrent(P, message)]

\* ConsumePunctuation: the state after it (no caller uses the token)
ConsumePunctuation(P, expected, message) ==
    IF ~IsAtEnd(P) /\ Peek(P).type = "Punctuation" /\ Lx(P) = expected
    THEN Advance(P)
    ELSE ErrorAtCurrent(P, message)

\* std::make_unique<...Node>(): the state after the allocation; the node's
\* id is P.nextId
New(P) == [P EXCEPT !.nextId = @ + 1]

\* what a Parse* yields: the node (Null for nullptr) and the state after it
Ret(n, P) == [node |-> n, P |-> P]

IsDeclarationKeyword(P) ==
    CheckType(P, "Keyword") /\ Lx(P) \in {"let", "var", "fun", "class", "enum"}

\* A Parse method calls the member functions of the parser through Call,
\* defined after them: the Parse methods (itself included, and the loops of
\* their bodies) and Match, MatchKeyword, MatchPunctuation, Consume,
\* ConsumePunctuation and ErrorAtCurrent.  Call("ParseX", P, arg) is
\* ParseX(P), ParseX(P, arg) or, for ParseType, ParseType(P, arg[1], arg[2]);
\* Call("Consume", P, <<type, message>>) is Consume(P, type, message), and
\* so on.
RECURSIVE Call(_, _, _)

ParseType(P, isConst, allowArrayType) ==
    IF P.exited THEN Ret(Null, P)
    ELSE LET mk == Call("Match", P, <<"Keyword">>)
             mi == Call("Match", mk.P, <<"Identifier">>)
             mp == Call("Match", mi.P, <<"Punctuation">>)
         IN IF mk.ok THEN Ret(TypeNode(Previous(mk.P).lexeme, isConst), mk.P)
            ELSE IF mi.ok THEN Ret(TypeNode(Previous(mi.P).lexeme, isConst), mi.P)
            ELSE IF mp.ok /\ Str(Previous(mp.P).lexeme) = "["
            THEN LET P1 == IF ~allowArrayType
                           THEN Call("ErrorAtCurrent", mp.P, "Nested arrays not supported.")
                           ELSE mp.P
                     arrayType == Call("ParseType", P1, <<FALSE, FALSE>>)
                     P2 == Call("ConsumePunctuation", arrayType.P, <<"]",
                               "Expected ']' after array element type.">>)
                 IN IF arrayType.P.exited \/ P2.exited THEN Ret(Null, P2)
                    ELSE Ret(TypeNode(<<"[">> \o arrayType.node.name \o <<"]">>, isConst), P2)
            ELSE Ret(Null, Call("ErrorAtCurrent", mp.P, "Expected type name."))

ParseDeclaration(P) ==
    IF P.exited THEN Ret(Null, P)
    ELSE LET mlet == Call("MatchKeyword", P, "let")
             mvar == Call("MatchKeyword", P, "var")
             mfun == Call("MatchKeyword", P, "fun")
             mclass == Call("MatchKeyword", P, "class")
             menum == Call("MatchKeyword", P, "enum")
         IN CASE mlet.ok -> Call("ParseVariableDeclaration", mlet.P, TRUE)
              [] mvar.ok -> Call("ParseVariableDeclaration", mvar.P, FALSE)
              [] mfun.ok -> Call("ParseFunctionDeclaration", mfun.P, Null)
              [] mclass.ok -> Call("ParseClassDeclaration", mclass.P, Null)
              [] menum.ok -> Call("ParseEnumDeclaration", menum.P, Null)
              [] OTHER -> Ret(Null, Call("ErrorAtCurrent", P, "Expected declaration."))

ParseVariableDeclaration(P, isConst) ==
    IF P.exited THEN Ret(Null, P)
    ELSE LET id == P.nextId
             name == Call("Consume", New(P), <<"Identifier", "Expected variable name.">>)
             P1 == Call("ConsumePunctuation", name.P, <<":", "Expected ':' after variable name.">>)
             typeNode == Call("ParseType", P1, <<isConst, TRUE>>)
             m == Call("Match", typeNode.P, <<"Operator">>)
             init == IF m.ok /\ Str(Previous(m.P).lexeme) = "="
                     THEN Call("ParseExpression", m.P, Null)
                     ELSE Ret(Null, Call("ErrorAtCurrent", m.P,
                              "Expected '=' after type for "
                              \o (IF isConst THEN "constant" ELSE "variable")
                              \o " declaration."))
             P2 == Call("ConsumePunctuation", init.P, <<";", "Expected ';' after variable declaration.">>)
         IN IF \/ typeNode.P.exited
               \/ init.P.exited
               \/ P2.exited
            THEN Ret(Null, P2)
            ELSE Ret([nodeType |-> "VariableDeclaration", id |-> id,
                      name |-> name.tok.lexeme, declaredType |-> typeNode.node,
                      initializer |-> init.node], P2)

\* one parameter: name ':' ['const'] Type; yields [list, P]
ParseParameter(P, parameters, message) ==
    LET name == Call("Consume", P, <<"Identifier", message>>)
        P1 == Call("ConsumePunctuation", name.P, <<":", "Expected ':' after parameter name.">>)
        isConst == ~P1.exited /\ CheckType(P1, "Keyword") /\ Lx(P1) = "const"
        P2 == IF isConst THEN Advance(P1) ELSE P1
        paramType == Call("ParseType", P2, <<isConst, TRUE>>)
    IN [list |-> Append(parameters, [name |-> name.tok.lexeme, type |-> paramType.node]),
        P |-> paramType.P]

ParseParameterLoop(P, parameters) ==
    IF ~P.exited /\ CheckType(P, "Punctuation") /\ Lx(P) = ","
    THEN LET r == ParseParameter(Advance(P), parameters,
                                 "Expected parameter name after comma.")
         IN IF r.P.exited THEN r ELSE Call("ParseParameterLoop", r.P, r.list)
    ELSE [list |-> parameters, P |-> P]

ParseParameterList(P, parameters) ==
    LET first == IF ~P.exited /\ CheckType(P, "Identifier")
                 THEN ParseParameter(P, parameters, "Expected parameter name.")
                 ELSE [list |-> parameters, P |-> P]
    IN IF first.P.exited THEN first
       ELSE Call("ParseParameterLoop", first.P, first.list)

ParseFunctionDeclaration(P) ==
    IF P.exited THEN Ret(Null, P)
    ELSE LET id == P.nextId
             name == Call("Consume", New(P), <<"Identifier", "Expected function name.">>)
             P1 == Call("ConsumePunctuation", name.P, <<"(", "Expected '(' after function name.">>)
             params == IF ~P1.exited /\ CheckType(P1, "Identifier")
                       THEN Call("ParseParameterList", P1, <<>>)
                       ELSE [list |-> <<>>, P |-> P1]
             P2 == Call("ConsumePunctuation", params.P, <<")", "Expected ')' after parameters.">>)
             returnType == IF ~P2.exited /\ CheckType(P2, "Punctuation") /\ Lx(P2) = ":"
                           THEN Call("ParseType", Advance(P2), <<FALSE, TRUE>>)
                           ELSE Ret(Null, P2)
             body == Call("ParseBlock", returnType.P, Null)
         IN IF \/ params.P.exited
               \/ returnType.P.exited
               \/ body.P.exited
            THEN Ret(Null, body.P)
            ELSE Ret([nodeType |-> "FunctionDeclaration", id |-> id,
                      name |-> name.tok.lexeme, parameters |-> params.list,
                      returnType |-> returnType.node, body |-> body.node], body.P)

ParseClassDeclaration(P) ==
    IF P.exited THEN Ret(Null, P)
    ELSE LET id == P.nextId
             name == Call("Consume", New(P), <<"Identifier", "Expected class name.">>)
             body == Call("ParseClassBlock", name.P, Null)
         IN IF body.P.exited THEN Ret(Null, body.P)
            ELSE Ret([nodeType |-> "ClassDeclaration", id |-> id,
                      name |-> name.tok.lexeme, body |-> body.node], body.P)

\* the do-while of ParseEnumBlock; yields [list, P]
ParseEnumLoop(P, values) ==
    IF P.exited THEN [list |-> values, P |-> P]
    ELSE LET enumName == Call("Consume", P, <<"Identifier", "Expected enum name.">>)
             vs == Append(values, enumName.tok.lexeme)
             P1 == enumName.P
         IN IF ~P1.exited /\ CheckType(P1, "Punctuation") /\ Lx(P1) = ","
            THEN LET P2 == Advance(P1)
                 IN IF CheckType(P2, "Punctuation") /\ Lx(P2) = "}"
                    THEN [list |-> vs, P |-> P2]
                    ELSE Call("ParseEnumLoop", P2, vs)
            ELSE [list |-> vs, P |-> P1]

ParseEnumBlock(P) ==
    LET P1 == Call("ConsumePunctuation", P, <<"{", "Expected '{' to start enum body.">>)
    IN IF P1.exited THEN [list |-> <<>>, P |-> P1]
       ELSE IF CheckType(P1, "Punctuation") /\ Lx(P1) = "}"
       THEN [list |-> <<>>, P |-> Advance(P1)]
       ELSE LET r == Call("ParseEnumLoop", P1, <<>>)
            IN [list |-> r.list,
                P |-> Call("ConsumePunctuation", r.P, <<"}", "Expected '}' to close enum body.">>)]

ParseEnumDeclaration(P) ==
    IF P.exited THEN Ret(Null, P)
    ELSE LET id == P.nextId
             name == Call("Consume", New(P), <<"Identifier", "Expected enum name.">>)
             values == Call("ParseEnumBlock", name.P, Null)
         IN IF values.P.exited THEN Ret(Null, values.P)
            ELSE Ret([nodeType |-> "EnumDeclaration", id |-> id,
                      name |-> name.tok.lexeme, values |-> values.list], values.P)

ParseBlockLoop(P, statements) ==
    IF P.exited THEN [list |-> statements, P |-> P]
    ELSE IF ~CheckType(P, "Punctuation") \/ Lx(P) # "}"
    THEN LET r == IF IsDeclarationKeyword(P)
                  THEN Call("ParseDeclaration", P, Null)
                  ELSE Call("ParseStatement", P, Null)
         IN IF r.P.exited THEN [list |-> Append(statements, r.node), P |-> r.P]
            ELSE Call("ParseBlockLoop", r.P, Append(statements, r.node))
    ELSE [list |-> statements, P |-> P]

ParseBlock(P) ==
    IF P.exited THEN Ret(Null, P)
    ELSE LET P1 == Call("ConsumePunctuation", P, <<"{", "Expected '{' to start a block.">>)
             id == P1.nextId
             r == Call("ParseBlockLoop", New(P1), <<>>)
             P2 == Call("ConsumePunctuation", r.P, <<"}", "Expected '}' to close block.">>)
         IN IF r.P.exited \/ P2.exited THEN Ret(Null, P2)
            ELSE Ret([nodeType |-> "Block", id |-> id, statements |-> r.list], P2)

ParseClassBlockLoop(P, declarations) ==
    IF P.exited THEN [list |-> declarations, P |-> P]
    ELSE IF ~CheckType(P, "Punctuation") \/ Lx(P) # "}"
    THEN IF IsDeclarationKeyword(P)
         THEN LET r == Call("ParseDeclaration", P, Null)
              IN IF r.P.exited
                 THEN [list |-> Append(declarations, r.node), P |-> r.P]
                 ELSE Call("ParseClassBlockLoop", r.P, Append(declarations, r.node))
         ELSE [list |-> declarations, P |-> Call("ErrorAtCurrent", P, "Expected declaration.")]
    ELSE [list |-> declarations, P |-> P]

ParseClassBlock(P) ==
    IF P.exited THEN Ret(Null, P)
    ELSE LET P1 == Call("ConsumePunctuation", P, <<"{", "Expected '{' to start a class block.">>)
             id == P1.nextId
             r == Call("ParseClassBlockLoop", New(P1), <<>>)
             P2 == Call("ConsumePunctuation", r.P, <<"}", "Expected '}' to close class block.">>)
         IN IF r.P.exited \/ P2.exited THEN Ret(Null, P2)
            ELSE Ret([nodeType |-> "ClassBlock", id |-> id, declarations |-> r.list], P2)

ParseBreakStatement(P) ==
    LET P1 == Call("ConsumePunctuation", P, <<";", "Expected ';' after 'break'.">>)
    IN IF P1.exited THEN Ret(Null, P1)
       ELSE Ret([nodeType |-> "BreakStatement", id |-> P1.nextId], New(P1))

ParseContinueStatement(P) ==
    LET P1 == Call("ConsumePunctuation", P, <<";", "Expected ';' after 'break'.">>)
    IN IF P1.exited THEN Ret(Null, P1)
       ELSE Ret([nodeType |-> "ContinueStatement", id |-> P1.nextId], New(P1))

ParseStatement(P) ==
    IF P.exited THEN Ret(Null, P)
    ELSE LET mif == Call("MatchKeyword", P, "if")
             mfor == Call("MatchKeyword", P, "for")
             mwhile == Call("MatchKeyword", P, "while")
             mreturn == Call("MatchKeyword", P, "return")
             mbreak == Call("MatchKeyword", P, "break")
             mcontinue == Call("MatchKeyword", P, "continue")
             mswitch == Call("MatchKeyword", P, "switch")
         IN CASE mif.ok -> Call("ParseIfStatement", mif.P, Null)
              [] mfor.ok -> Call("ParseForStatement", mfor.P, Null)
              [] mwhile.ok -> Call("ParseWhileStatement", mwhile.P, Null)
              [] mreturn.ok -> Call("ParseReturnStatement", mreturn.P, Null)
              [] mbreak.ok -> Call("ParseBreakStatement", mbreak.P, Null)
              [] mcontinue.ok -> Call("ParseContinueStatement", mcontinue.P, Null)
              [] mswitch.ok -> Call("ParseSwitchStatement", mswitch.P, Null)
              [] OTHER ->
                 LET expression == Call("ParseExpression", P, Null)
                     e == expression.node
                     isAssignmentNode ==
                         e.nodeType = "BinaryExpression" /\ e.op = "Assign"
                 IN IF expression.P.exited THEN Ret(Null, expression.P)
                    ELSE IF isAssignmentNode \/ e.nodeType = "FunctionCall"
                    THEN LET P1 == Call("ConsumePunctuation", expression.P, <<";",
                                       "Expected ';' after expression statement.">>)
                         IN IF P1.exited THEN Ret(Null, P1)
                            ELSE Ret([nodeType |-> "ExpressionStatement",
                                      id |-> P1.nextId, expression |-> e], New(P1))
                    ELSE Ret(Null, Call("ErrorAtCurrent", expression.P, "Expected statement."))

ParseIfStatement(P) ==
    IF P.exited THEN Ret(Null, P)
    ELSE LET P1 == Call("ConsumePunctuation", P, <<"(", "Expected '(' after 'if'.">>)
             condition == Call("ParseExpression", P1, Null)
             P2 == Call("ConsumePunctuation", condition.P, <<")", "Expected ')' after if condition.">>)
             thenBranch == Call("ParseBlock", P2, Null)
             melse == Call("MatchKeyword", thenBranch.P, "else")
             elseBranch == IF melse.ok THEN Call("ParseBlock", melse.P, Null) ELSE Ret(Null, melse.P)
             P3 == elseBranch.P
         IN IF \/ condition.P.exited
               \/ thenBranch.P.exited
               \/ P3.exited
            THEN Ret(Null, P3)
            ELSE Ret([nodeType |-> "IfStatement", id |-> P3.nextId,
                      condition |-> condition.node, thenBranch |-> thenBranch.node,
                      elseBranch |-> elseBranch.node], New(P3))

ParseForStatement(P) ==
    IF P.exited THEN Ret(Null, P)
    ELSE LET P1 == Call("ConsumePunctuation", P, <<"(", "Expected '(' after 'for'.">>)
             mvar == Call("MatchKeyword", P1, "var")
             init == IF mvar.ok THEN Call("ParseVariableDeclaration", mvar.P, FALSE)
                     ELSE Ret(Null, mvar.P)
             condition == Call("ParseExpression", init.P, Null)
             P2 == Call("ConsumePunctuation", condition.P, <<";", "Expected ';' after for condition.">>)
             increment == Call("ParseExpression", P2, Null)
             P3 == Call("ConsumePunctuation", increment.P, <<")", "Expected ')' after for clauses.">>)
             body == Call("ParseBlock", P3, Null)
             P4 == body.P
         IN IF \/ init.P.exited
               \/ condition.P.exited
               \/ increment.P.exited
               \/ P4.exited
            THEN Ret(Null, P4)
            ELSE Ret([nodeType |-> "ForStatement", id |-> P4.nextId,
                      init |-> init.node, condition |-> condition.node,
                      update |-> increment.node, body |-> body.node], New(P4))

ParseWhileStatement(P) ==
    IF P.exited THEN Ret(Null, P)
    ELSE LET P1 == Call("ConsumePunctuation", P, <<"(", "Expected '(' after 'while'.">>)
             condition == Call("ParseExpression", P1, Null)
             P2 == Call("ConsumePunctuation", condition.P, <<")", "Expected ')' after while condition.">>)
             body == Call("ParseBlock", P2, Null)
             P3 == body.P
         IN IF condition.P.exited \/ P3.exited THEN Ret(Null, P3)
            ELSE Ret([nodeType |-> "WhileStatement", id |-> P3.nextId,
                      condition |-> condition.node, body |-> body.node], New(P3))

ParseReturnStatement(P) ==
    IF P.exited THEN Ret(Null, P)
    ELSE LET id == P.nextId
             P1 == New(P)
             expression == IF ~CheckType(P1, "Punctuation") \/ Lx(P1) # ";"
                           THEN Call("ParseExpression", P1, Null)
                           ELSE Ret(Null, P1)
             P2 == Call("ConsumePunctuation", expression.P, <<";",
                       "Expected ';' after return statement.">>)
         IN IF expression.P.exited \/ P2.exited THEN Ret(Null, P2)
            ELSE Ret([nodeType |-> "ReturnStatement", id |-> id,
                      expression |-> expression.node], P2)

\* a BinaryExpressionNode made once both operands are parsed
Binary(P, left, op, right) ==
    IF P.exited THEN Ret(Null, P)
    ELSE Ret([nodeType |-> "BinaryExpression", id |-> P.nextId,
              left |-> left, op |-> op, right |-> right], New(P))

(***************************************************************************)
(* The binary levels.  ParseAdditiveExpression() is                        *)
(* ParseMultiplicativeExpression() and then the while loop on + and -, and *)
(* ParseMultiplicativeExpression() in turn is ParseUnaryExpression() and   *)
(* then the while loop on *, / and %.  Each level is written as that       *)
(* sequence: ParseUnaryExpression() first, then the loops of the levels    *)
(* below it and its own, in the order in which the nested calls return.    *)
(* A loop takes the parser state and the expression parsed so far.         *)
(***************************************************************************)
ParseMultiplicativeLoop(P, expr) ==
    IF ~P.exited /\ CheckType(P, "Operator") /\ Lx(P) \in {"*", "/", "%"}
    THEN LET op == Lx(P)
             right == Call("ParseUnaryExpression", Advance(P), Null)
             b == Binary(right.P, expr,
                         IF op = "*" THEN "Multiply"
                         ELSE IF op = "/" THEN "Divide"
                         ELSE "Modulo",
                         right.node)
         IN IF right.P.exited THEN Ret(Null, right.P)
            ELSE Call("ParseMultiplicativeLoop", b.P, b.node)
    ELSE Ret(expr, P)

ParseMultiplicativeExpression(P) ==
    LET unary == Call("ParseUnaryExpression", P, Null)
    IN IF unary.P.exited THEN unary
       ELSE Call("ParseMultiplicativeLoop", unary.P, unary.node)

\* an additive tier that groups to the right
ParseAdditiveRightAssociative(P, expr) ==
    IF ~P.exited /\ CheckType(P, "Operator") /\ Lx(P) \in {"+", "-"}
    THEN LET op == Lx(P)
             right == Call("ParseAdditiveExpression", Advance(P), Null)
         IN Binary(right.P, expr, IF op = "+" THEN "Add" ELSE "Subtract", right.node)
    ELSE Ret(expr, P)

ParseAdditiveLoop(P, expr) ==
    IF ~P.exited /\ CheckType(P, "Operator") /\ Lx(P) \in {"+", "-"}
    THEN LET op == Lx(P)
             right == Call("ParseMultiplicativeExpression", Advance(P), Null)
             b == Binary(right.P, expr,
                         IF op = "+" THEN "Add" ELSE "Subtract", right.node)
         IN IF right.P.exited THEN Ret(Null, right.P)
            ELSE Call("ParseAdditiveLoop", b.P, b.node)
    ELSE Ret(expr, P)

ParseAdditiveExpression(P) ==
    LET unary == Call("ParseUnaryExpression", P, Null)
        multiplicative == Call("ParseMultiplicativeLoop", unary.P, unary.node)
    IN IF unary.P.exited \/ multiplicative.P.exited THEN multiplicative
       ELSE Call("ParseAdditiveLoop", multiplicative.P, multiplicative.node)

\* a relational tier that repeats like the additive one
ParseRelationalRepeating(P, expr) ==
    IF ~P.exited /\ CheckType(P, "Operator") /\ Lx(P) \in {"<", ">", "<=", ">="}
    THEN LET op == Lx(P)
             right == Call("ParseAdditiveExpression", Advance(P), Null)
             b == Binary(right.P, expr,
                         IF op = "<" THEN "Less"
                         ELSE IF op = ">" THEN "Greater"
                         ELSE IF op = "<=" THEN "LessEqual"
                         ELSE "GreaterEqual",
                         right.node)
         IN IF right.P.exited THEN Ret(Null, right.P)
            ELSE Call("ParseRelationalRight", b.P, b.node)
    ELSE Ret(expr, P)

\* ParseRelationalExpression after its first operand: at most one operator
ParseRelationalRight(P, expr) ==
    IF ~P.exited /\ CheckType(P, "Operator") /\ Lx(P) \in {"<", ">", "<=", ">="}
    THEN LET op == Lx(P)
             right == Call("ParseAdditiveExpression", Advance(P), Null)
         IN Binary(right.P, expr,
                   IF op = "<" THEN "Less"
                   ELSE IF op = ">" THEN "Greater"
                   ELSE IF op = "<=" THEN "LessEqual"
                   ELSE "GreaterEqual",
                   right.node)
    ELSE Ret(expr, P)

ParseRelationalExpression(P) ==
    LET unary == Call("ParseUnaryExpression", P, Null)
        multiplicative == Call("ParseMultiplicativeLoop", unary.P, unary.node)
        additive == Call("ParseAdditiveLoop", multiplicative.P, multiplicative.node)
    IN IF \/ unary.P.exited
          \/ multiplicative.P.exited
          \/ additive.P.exited
       THEN additive
       ELSE Call("ParseRelationalRight", additive.P, additive.node)

ParseEqualityLoop(P, expr) ==
    IF ~P.exited /\ CheckType(P, "Operator") /\ Lx(P) \in {"==", "!="}
    THEN LET op == Lx(P)
             right == Call("ParseRelationalExpression", Advance(P), Null)
             b == Binary(right.P, expr,
                         IF op = "==" THEN "Equal" ELSE "NotEqual", right.node)
         IN IF right.P.exited THEN Ret(Null, right.P)
            ELSE Call("ParseEqualityLoop", b.P, b.node)
    ELSE Ret(expr, P)

ParseEqualityExpression(P) ==
    LET unary == Call("ParseUnaryExpression", P, Null)
        multiplicative == Call("ParseMultiplicativeLoop", unary.P, unary.node)
        additive == Call("ParseAdditiveLoop", multiplicative.P, multiplicative.node)
        relational == Call("ParseRelationalRight", additive.P, additive.node)
    IN IF \/ unary.P.exited
          \/ multiplicative.P.exited
          \/ additive.P.exited
          \/ relational.P.exited
       THEN relational
       ELSE Call("ParseEqualityLoop", relational.P, relational.node)

ParseLogicalAndLoop(P, expr) ==
    IF ~P.exited /\ CheckType(P, "Operator") /\ Lx(P) = "&&"
    THEN LET right == Call("ParseEqualityExpression", Advance(P), Null)
             b == Binary(right.P, expr, "LogicalAnd", right.node)
         IN IF right.P.exited THEN Ret(Null, right.P)
            ELSE Call("ParseLogicalAndLoop", b.P, b.node)
    ELSE Ret(expr, P)

ParseLogicalAndExpression(P) ==
    LET unary == Call("ParseUnaryExpression", P, Null)
        multiplicative == Call("ParseMultiplicativeLoop", unary.P, unary.node)
        additive == Call("ParseAdditiveLoop", multiplicative.P, multiplicative.node)
        relational == Call("ParseRelationalRight", additive.P, additive.node)
        equality == Call("ParseEqualityLoop", relational.P, relational.node)
    IN IF \/ unary.P.exited
          \/ multiplicative.P.exited
          \/ additive.P.exited
          \/ relational.P.exited
          \/ equality.P.exited
       THEN equality
       ELSE Call("ParseLogicalAndLoop", equality.P, equality.node)

ParseLogicalOrLoop(P, expr) ==
    IF ~P.exited /\ CheckType(P, "Operator") /\ Lx(P) = "||"
    THEN LET right == Call("ParseLogicalAndExpression", Advance(P), Null)
             b == Binary(right.P, expr, "LogicalOr", right.node)
         IN IF right.P.exited THEN Ret(Null, right.P)
            ELSE Call("ParseLogicalOrLoop", b.P, b.node)
    ELSE Ret(expr, P)

ParseLogicalOrExpression(P) ==
    LET unary == Call("ParseUnaryExpression", P, Null)
        multiplicative == Call("ParseMultiplicativeLoop", unary.P, unary.node)
        additive == Call("ParseAdditiveLoop", multiplicative.P, multiplicative.node)
        relational == Call("ParseRelationalRight", additive.P, additive.node)
        equality == Call("ParseEqualityLoop", relational.P, relational.node)
        logicalAnd == Call("ParseLogicalAndLoop", equality.P, equality.node)
    IN IF \/ unary.P.exited
          \/ multiplicative.P.exited
          \/ additive.P.exited
          \/ relational.P.exited
          \/ equality.P.exited
          \/ logicalAnd.P.exited
       THEN logicalAnd
       ELSE Call("ParseLogicalOrLoop", logicalAnd.P, logicalAnd.node)

\* ParseAssignmentExpression after its left operand
ParseAssignmentRight(P, left) ==
    IF ~P.exited /\ CheckType(P, "Operator") /\ Lx(P) = "="
    THEN LET right == Call("ParseAssignmentExpression", Advance(P), Null)
         IN Binary(right.P, left, "Assign", right.node)
    ELSE Ret(left, P)

ParseAssignmentExpression(P) ==
    LET unary == Call("ParseUnaryExpression", P, Null)
        multiplicative == Call("ParseMultiplicativeLoop", unary.P, unary.node)
        additive == Call("ParseAdditiveLoop", multiplicative.P, multiplicative.node)
        relational == Call("ParseRelationalRight", additive.P, additive.node)
        equality == Call("ParseEqualityLoop", relational.P, relational.node)
        logicalAnd == Call("ParseLogicalAndLoop", equality.P, equality.node)
        logicalOr == Call("ParseLogicalOrLoop", logicalAnd.P, logicalAnd.node)
    IN IF \/ unary.P.exited
          \/ multiplicative.P.exited
          \/ additive.P.exited
          \/ relational.P.exited
          \/ equality.P.exited
          \/ logicalAnd.P.exited
          \/ logicalOr.P.exited
       THEN logicalOr
       ELSE Call("ParseAssignmentRight", logicalOr.P, logicalOr.node)

ParseExpression(P) == Call("ParseAssignmentExpression", P, Null)

ParseUnaryExpression(P) ==
    IF P.exited THEN Ret(Null, P)
    ELSE LET m == Call("Match", P, <<"Operator">>)
         IN IF m.ok /\ Str(Previous(m.P).lexeme) \in {"-", "!"}
            THEN LET id == m.P.nextId
                     operand == Call("ParseUnaryExpression", New(m.P), Null)
                 IN IF operand.P.exited THEN Ret(Null, operand.P)
                    ELSE Ret([nodeType |-> "UnaryExpression", id |-> id,
                              op |-> Previous(m.P).lexeme, operand |-> operand.node],
                             operand.P)
            ELSE Call("ParsePrimaryExpression", m.P, Null)

\* the while of ParseArgumentList and ParseExpressionList; yields [list, P]
ParseExpressionListLoop(P, expressions) ==
    IF ~P.exited /\ CheckType(P, "Punctuation") /\ Lx(P) = ","
    THEN LET e == Call("ParseExpression", Advance(P), Null)
         IN IF e.P.exited THEN [list |-> Append(expressions, e.node), P |-> e.P]
            ELSE Call("ParseExpressionListLoop", e.P, Append(expressions, e.node))
    ELSE [list |-> expressions, P |-> P]

ParseArgumentList(P) ==
    IF P.exited THEN [list |-> <<>>, P |-> P]
    ELSE IF ~CheckType(P, "Punctuation") \/ Lx(P) # ")"
    THEN LET e == Call("ParseExpression", P, Null)
         IN IF e.P.exited THEN [list |-> <<e.node>>, P |-> e.P]
            ELSE Call("ParseExpressionListLoop", e.P, <<e.node>>)
    ELSE [list |-> <<>>, P |-> P]

ParseExpressionList(P) ==
    IF P.exited THEN [list |-> <<>>, P |-> P]
    ELSE LET e == Call("ParseExpression", P, Null)
         IN IF e.P.exited THEN [list |-> <<e.node>>, P |-> e.P]
            ELSE Call("ParseExpressionListLoop", e.P, <<e.node>>)

\* the while (true) of ParsePrimaryExpression: member accesses and method calls
ParsePostfixLoop(P, expr) ==
    IF P.exited THEN Ret(Null, P)
    ELSE LET mdot == Call("MatchPunctuation", P, ".")
         IN IF mdot.ok
            THEN LET id == mdot.P.nextId
                     member == Call("Consume", New(mdot.P), <<"Identifier",
                                       "Expected member name after '.'">>)
                 IN Call("ParsePostfixLoop", member.P,
                        [nodeType |-> "MemberAccess", id |-> id, object |-> expr,
                         memberName |-> member.tok.lexeme])
            ELSE IF CheckType(P, "Punctuation") /\ Lx(P) = "("
            THEN LET args == Call("ParseArgumentList", Advance(P), Null)
                     P1 == Call("ConsumePunctuation", args.P, <<")", "Expected ')' after arguments">>)
                 IN IF args.P.exited THEN Ret(Null, New(P1))
                    ELSE Call("ParsePostfixLoop", New(P1),
                        [nodeType |-> "FunctionCall", id |-> P1.nextId, name |-> <<>>,
                         arguments |-> args.list, callTarget |-> expr])
            ELSE Ret(expr, P)

ParsePrimaryExpression(P) ==
    IF P.exited THEN Ret(Null, P)
    ELSE LET mid == Call("Match", P, <<"Identifier">>)
             mlit == Call("Match", P, <<"Number", "String", "Keyword">>)
             mparen == Call("MatchPunctuation", P, "(")
             mbracket == Call("MatchPunctuation", P, "[")
         IN CASE mid.ok ->
                 LET name == Previous(mid.P).lexeme
                     P1 == mid.P
                 IN IF CheckType(P1, "Punctuation") /\ Lx(P1) = "("
                    THEN LET args == Call("ParseArgumentList", Advance(P1), Null)
                             P2 == Call("ConsumePunctuation", args.P, <<")",
                                       "Expected ')' after arguments">>)
                         IN IF args.P.exited \/ P2.exited THEN Ret(Null, P2)
                            ELSE Ret([nodeType |-> "FunctionCall", id |-> P2.nextId,
                                      name |-> name, arguments |-> args.list,
                                      callTarget |-> Null], New(P2))
                    ELSE Call("ParsePostfixLoop", New(P1),
                             [nodeType |-> "Identifier", id |-> P1.nextId, name |-> name])
              [] mlit.ok ->
                 Ret([nodeType |-> "Literal", id |-> mlit.P.nextId,
                      value |-> Previous(mlit.P).lexeme], New(mlit.P))
              [] mparen.ok ->
                 LET expr == Call("ParseExpression", mparen.P, Null)
                     P1 == Call("ConsumePunctuation", expr.P, <<")", "Expected ')' after expression.">>)
                 IN IF expr.P.exited \/ P1.exited THEN Ret(Null, P1)
                    ELSE Ret(expr.node, P1)
              [] mbracket.ok ->
                 LET id == mbracket.P.nextId
                     P1 == New(mbracket.P)
                 IN IF CheckType(P1, "Punctuation") /\ Lx(P1) = "]"
                    THEN Ret([nodeType |-> "ArrayLiteral", id |-> id, elements |-> <<>>],
                             Advance(P1))
                    ELSE LET elements == Call("ParseExpressionList", P1, Null)
                             P2 == Call("ConsumePunctuation", elements.P, <<"]",
                                       "Expected ']' after array elements.">>)
                         IN IF elements.P.exited \/ P2.exited THEN Ret(Null, P2)
                            ELSE Ret([nodeType |-> "ArrayLiteral", id |-> id,
                                      elements |-> elements.list], P2)
              [] OTHER -> Ret(Null, Call("ErrorAtCurrent", P, "Expected expression"))

\* the while of ParseSwitchStatement; sw is [cases, defaultCase]; yields [sw, P]
ParseSwitchLoop(P, sw) ==
    IF P.exited THEN [sw |-> sw, P |-> P]
    ELSE IF ~CheckType(P, "Punctuation") \/ Lx(P) # "}"
    THEN LET mcase == Call("MatchKeyword", P, "case")
             mdefault == Call("MatchKeyword", P, "default")
         IN IF mcase.ok
            THEN LET caseExpr == Call("ParseExpression", mcase.P, Null)
                     P1 == Call("ConsumePunctuation", caseExpr.P, <<":",
                               "Expected ':' after case expression.">>)
                     caseBlock == Call("ParseBlock", P1, Null)
                     sw1 == [sw EXCEPT !.cases = Append(@,
                                [expr |-> caseExpr.node, block |-> caseBlock.node])]
                 IN IF caseExpr.P.exited \/ caseBlock.P.exited
                    THEN [sw |-> sw1, P |-> caseBlock.P]
                    ELSE Call("ParseSwitchLoop", caseBlock.P, sw1)
            ELSE IF mdefault.ok
            THEN LET P1 == Call("ConsumePunctuation", mdefault.P, <<":",
                               "Expected ':' after 'default'.">>)
                     defaultBlock == Call("ParseBlock", P1, Null)
                     P2 == IF sw.defaultCase # Null
                           THEN Call("ErrorAtCurrent", defaultBlock.P,
                                    "Multiple default clauses in switch statement.")
                           ELSE defaultBlock.P
                 IN IF defaultBlock.P.exited \/ P2.exited
                    THEN [sw |-> [sw EXCEPT !.defaultCase = defaultBlock.node], P |-> P2]
                    ELSE Call("ParseSwitchLoop", P2,
                             [sw EXCEPT !.defaultCase = defaultBlock.node])
            ELSE [sw |-> sw,
                  P |-> Call("ErrorAtCurrent", P, "Expected 'case' or 'default' in switch statement.")]
    ELSE [sw |-> sw, P |-> P]

ParseSwitchStatement(P) ==
    IF P.exited THEN Ret(Null, P)
    ELSE LET P1 == Call("ConsumePunctuation", P, <<"(", "Expected '(' after 'switch'.">>)
             expr == Call("ParseExpression", P1, Null)
             P2 == Call("ConsumePunctuation", expr.P, <<")", "Expected ')' after switch expression.">>)
             P3 == Call("ConsumePunctuation", P2, <<"{", "Expected '{' to start switch body.">>)
             id == P3.nextId
             r == Call("ParseSwitchLoop", New(P3), [cases |-> <<>>, defaultCase |-> Null])
             P4 == Call("ConsumePunctuation", r.P, <<"}", "Expected '}' to close switch body.">>)
         IN IF \/ expr.P.exited
               \/ r.P.exited
               \/ P4.exited
            THEN Ret(Null, P4)
            ELSE Ret([nodeType |-> "SwitchStatement", id |-> id,
                      expression |-> expr.node, cases |-> r.sw.cases,
                      defaultCase |-> r.sw.defaultCase], P4)

\* a ParseProgram that returns after its first declaration
ParseProgramLoopOnce(P, declarations) ==
    IF P.exited THEN [list |-> declarations, P |-> P]
    ELSE IF ~IsAtEnd(P)
    THEN LET decl == Call("ParseDeclaration", P, Null)
         IN [list |-> IF decl.node # Null /\ ~decl.P.exited
                      THEN Append(declarations, decl.node)
                      ELSE declarations,
             P |-> decl.P]
    ELSE [list |-> declarations, P |-> P]

\* the while (!IsAtEnd()) of ParseProgram; yields [list, P]
ParseProgramLoop(P, declarations) ==
    IF P.exited THEN [list |-> declarations, P |-> P]
    ELSE IF ~IsAtEnd(P)
    THEN LET decl == Call("ParseDeclaration", P, Null)
         IN IF decl.P.exited THEN [list |-> declarations, P |-> decl.P]
            ELSE Call("ParseProgramLoop", decl.P,
                     IF decl.node # Null THEN Append(declarations, decl.node)
                     ELSE declarations)
    ELSE [list |-> declarations, P |-> P]

\* the method a call names, applied to its arguments
Call(method, P, arg) ==
    CASE method = "ParseType" -> ParseType(P, arg[1], arg[2])
      [] method = "ParseParameterList" -> ParseParameterList(P, arg)
      [] method = "ParseEnumBlock" -> ParseEnumBlock(P)
      [] method = "ParseDeclaration" -> ParseDeclaration(P)
      [] method = "ParseVariableDeclaration" -> ParseVariableDeclaration(P, arg)
      [] method = "ParseFunctionDeclaration" -> ParseFunctionDeclaration(P)
      [] method = "ParseClassDeclaration" -> ParseClassDeclaration(P)
      [] method = "ParseEnumDeclaration" -> ParseEnumDeclaration(P)
      [] method = "ParseBlock" -> ParseBlock(P)
      [] method = "ParseClassBlock" -> ParseClassBlock(P)
      [] method = "ParseStatement" -> ParseStatement(P)
      [] method = "ParseIfStatement" -> ParseIfStatement(P)
      [] method = "ParseForStatement" -> ParseForStatement(P)
      [] method = "ParseWhileStatement" -> ParseWhileStatement(P)
      [] method = "ParseReturnStatement" -> ParseReturnStatement(P)
      [] method = "ParseBreakStatement" -> ParseBreakStatement(P)
      [] method = "ParseContinueStatement" -> ParseContinueStatement(P)
      [] method = "ParseSwitchStatement" -> ParseSwitchStatement(P)
      [] method = "ParseExpression" -> ParseExpression(P)
      [] method = "ParseAssignmentExpression" -> ParseAssignmentExpression(P)
      [] method = "ParseLogicalOrExpression" -> ParseLogicalOrExpression(P)
      [] method = "ParseLogicalAndExpression" -> ParseLogicalAndExpression(P)
      [] method = "ParseEqualityExpression" -> ParseEqualityExpression(P)
      [] method = "ParseRelationalExpression" -> ParseRelationalExpression(P)
      [] method = "ParseAdditiveExpression" -> ParseAdditiveExpression(P)
      [] method = "ParseMultiplicativeExpression" -> ParseMultiplicativeExpression(P)
      [] method = "ParseUnaryExpression" -> ParseUnaryExpression(P)
      [] method = "ParsePrimaryExpression" -> ParsePrimaryExpression(P)
      [] method = "ParseArgumentList" -> ParseArgumentList(P)
      [] method = "ParseExpressionList" -> ParseExpressionList(P)
      [] method = "ParseParameterLoop" -> ParseParameterLoop(P, arg)
      [] method = "ParseEnumLoop" -> ParseEnumLoop(P, arg)
      [] method = "ParseBlockLoop" -> ParseBlockLoop(P, arg)
      [] method = "ParseClassBlockLoop" -> ParseClassBlockLoop(P, arg)
      [] method = "ParseLogicalOrLoop" -> ParseLogicalOrLoop(P, arg)
      [] method = "ParseRelationalRight" -> ParseRelationalRight(P, arg)
      [] method = "ParseAssignmentRight" -> ParseAssignmentRight(P, arg)
      [] method = "ParseLogicalAndLoop" -> ParseLogicalAndLoop(P, arg)
      [] method = "ParseEqualityLoop" -> ParseEqualityLoop(P, arg)
      [] method = "ParseAdditiveLoop" -> ParseAdditiveLoop(P, arg)
      [] method = "ParseMultiplicativeLoop" -> ParseMultiplicativeLoop(P, arg)
      [] method = "ParseExpressionListLoop" -> ParseExpressionListLoop(P, arg)
      [] method = "ParsePostfixLoop" -> ParsePostfixLoop(P, arg)
      [] method = "ParseSwitchLoop" -> ParseSwitchLoop(P, arg)
      [] method = "ParseProgramLoop" -> ParseProgramLoop(P, arg)
      [] method = "Match" -> Match(P, arg)
      [] method = "MatchKeyword" -> MatchKeyword(P, arg)
      [] method = "MatchPunctuation" -> MatchPunctuation(P, arg)
      [] method = "Consume" -> Consume(P, arg[1], arg[2])
      [] method = "ConsumePunctuation" -> ConsumePunctuation(P, arg[1], arg[2])
      [] method = "ErrorAtCurrent" -> ErrorAtCurrent(P, arg)

ParseProgram(P) ==
    LET id == P.nextId
        r == Call("ParseProgramLoop", New(P), <<>>)
    IN IF r.P.exited THEN Ret(Null, r.P)
       ELSE Ret([nodeType |-> "Program", id |-> id, declarations |-> r.list], r.P)

(***************************************************************************)
(* Semantic analyzer (src/src/SemanticAnalyzer.h).  An analyzer state A is *)
(*   root          the node Analyze starts from                            *)
(*   scopeStack    the ids of the scopes on the stack, innermost last      *)
(*   scopes        every Scope ever made: [parent, symbols, alive]; the id *)
(*                 of a scope is its index, 0 is nullptr; symbols is the   *)
(*                 map as a sequence of [name, sym] entries                *)
(*   symbols       every Symbol ever made, with `alive`; 0 is nullptr      *)
(*   errors        the error list                                          *)
(*   currentFunction, loopDepth                                            *)
(*   notes         per node id, the fields the analyzer writes into nodes  *)
(*   visited       the calls of the three passes, in order: the pass, the  *)
(*                 node and loopDepth at the call                          *)
(*   thrown        what() of the exception in flight, "" if none           *)
(*   crashed       the process died on a memory fault                      *)
(*   result        what Analyze returned, "none" before it returns         *)
(***************************************************************************)
NoNote ==
    [symbol |-> 0, resolvedSymbol |-> 0, evaluatedType |-> Null,
     resolvedType |-> Null, isInsideLoop |-> FALSE]

SemanticAnalyzer(root, nodeCount) ==
    [root |-> root, scopeStack |-> <<>>, scopes |-> <<>>, symbols |-> <<>>,
     errors |-> <<>>, currentFunction |-> Null, loopDepth |-> 0,
     notes |-> [i \in 1..nodeCount |-> NoNote], visited |-> <<>>,
     thrown |-> "", crashed |-> FALSE, result |-> "none"]

\* nothing more of Analyze's try block runs
Halted(A) == A.crashed \/ A.thrown # ""

Visit(A, pass, node) ==
    [A EXCEPT !.visited = Append(@, [pass |-> pass, node |-> node.id,
                                     loopDepth |-> A.loopDepth])]

\* a read or write through a null pointer: the build traps, or goes on
NullDeref(A) == IF ub.trap THEN [A EXCEPT !.crashed = TRUE] ELSE A

Error(A, message) == [A EXCEPT !.errors = Append(@, message)]

currentScope(A) ==
    IF A.scopeStack = <<>> THEN 0 ELSE A.scopeStack[Len(A.scopeStack)]

PushScope(A) ==
    [A EXCEPT !.scopes = Append(@, [parent |-> currentScope(A),
                                    symbols |-> <<>>, alive |-> TRUE]),
              !.scopeStack = Append(@, Len(A.scopes) + 1)]

\* the symbols a scope's map owns
Owned(scope) == {scope.symbols[i].sym : i \in 1..Len(scope.symbols)}

\* pop_back destroys the Scope and, with its map, the Symbols it owns
PopScope(A) ==
    IF A.scopeStack # <<>>
    THEN LET s == currentScope(A)
         IN [A EXCEPT !.scopeStack = SubSeq(@, 1, Len(@) - 1),
                      !.scopes[s].alive = FALSE,
                      !.symbols = [i \in DOMAIN @ |->
                                     IF i \in Owned(A.scopes[s])
                                     THEN [@[i] EXCEPT !.alive = FALSE]
                                     ELSE @[i]]]
    ELSE A

\* symbols.find(name) in one scope: the symbol's id, 0 if absent
Find(scope, name) ==
    LET hits == {i \in 1..Len(scope.symbols) : scope.symbols[i].name = name}
    IN IF hits = {} THEN 0 ELSE scope.symbols[CHOOSE i \in hits : TRUE].sym

\* Scope::Lookup on scope s (s # 0): the symbol's id, 0 for nullptr
RECURSIVE Lookup(_, _, _)
Lookup(A, s, name) ==
    LET found == Find(A.scopes[s], name)
    IN IF found # 0 THEN found
       ELSE IF A.scopes[s].parent # 0 THEN Lookup(A, A.scopes[s].parent, name)
       ELSE 0

\* std::make_unique<Symbol>(): yields the state with the new symbol last
NewSymbol(A, kind, name, type) ==
    [A EXCEPT !.symbols = Append(@, [kind |-> kind, name |-> name, type |-> type,
                                     scope |-> 0, declarationSite |-> 0,
                                     isInitialized |-> FALSE, alive |-> TRUE])]

\* currentScope()->symbols[name] = std::move(symbol), for the symbol made
\* last: an entry of that name is replaced and its Symbol destroyed.  With
\* no scope on the stack the store goes through nullptr: a build that does
\* not trap loses it, and the Symbol dies with the unique_ptr.
StoreSymbol(A, name) ==
    LET s == currentScope(A)
        sym == Len(A.symbols)
    IN IF s = 0
       THEN NullDeref([A EXCEPT !.symbols[sym].alive = FALSE])
       ELSE LET old == Find(A.scopes[s], name)
                entries == A.scopes[s].symbols
                kept == IF old = 0 THEN entries
                        ELSE SelectSeq(entries, LAMBDA e : e.name # name)
            IN [A EXCEPT !.scopes[s].symbols =
                             Append(kept, [name |-> name, sym |-> sym]),
                         !.symbols = IF old = 0 THEN @
                                     ELSE [@ EXCEPT ![old].alive = FALSE]]

\* *type, for a TypeNode* that may be nullptr; yields [type, A].  A null
\* `type` is read through: the build traps or goes on with whatever is there.
ReadType(A, type) ==
    IF type = Null
    THEN IF ub.trap THEN [type |-> Null, A |-> [A EXCEPT !.crashed = TRUE]]
         ELSE [type |-> TypeNode(ub.name, FALSE), A |-> A]
    ELSE [type |-> type, A |-> A]

\* std::make_unique<TypeNode>(*type); yields [type, A]
CloneType(A, type) == ReadType(A, type)

IsArrayType(type) ==
    /\ Len(type.name) > 2
    /\ type.name[1] = "["
    /\ type.name[Len(type.name)] = "]"

RECURSIVE CheckTypeCompatibility(_, _)
\* an array check that takes any two array types for compatible
CheckArrayCompatibilityAny(t1, t2) == TRUE

CheckArrayCompatibility(t1, t2) ==
    LET elem1 == Substr(t1.name, 1, Len(t1.name) - 2)
        elem2 == Substr(t2.name, 1, Len(t2.name) - 2)
        tn1 == [nodeType |-> "Type", name |-> elem1, array |-> FALSE, isConst |-> FALSE]
        tn2 == [nodeType |-> "Type", name |-> elem2, array |-> FALSE, isConst |-> FALSE]
    IN CheckTypeCompatibility(tn1, tn2)

CheckTypeCompatibility(t1, t2) ==
    IF t1.name = t2.name THEN TRUE
    ELSE IF IsArrayType(t1) /\ IsArrayType(t2) THEN CheckArrayCompatibility(t1, t2)
    ELSE FALSE

\* dynamic_cast to the analyzer's private interfaces: no node type of AST.h
\* derives from IHasDeclarations or IHasChildren, so the cast yields nullptr
AsIHasDeclarations(node) == Null

AsIHasChildren(node) == Null

GetDeclarations(container) == container.declarations

GetChildren(container) == container.children

\* GetLiteralType yields [type, A].  front() and back() of an empty value
\* are undefined: a checked build aborts, another reads the terminator.
GetLiteralType(A, literal) ==
    LET value == literal.value
        named(n) == [nodeType |-> "Type", name |-> n, array |-> FALSE, isConst |-> FALSE]
    IN IF \E i \in 1..Len(value) : value[i] = "."
       THEN [type |-> named(<<"f","l","o","a","t">>), A |-> A]
       ELSE IF Str(value) \in {"true", "false"}
       THEN [type |-> named(<<"b","o","o","l">>), A |-> A]
       ELSE IF value = <<>>
       THEN IF ub.trap THEN [type |-> Null, A |-> [A EXCEPT !.crashed = TRUE]]
            ELSE [type |-> named(<<"i","n","t">>), A |-> A]
       ELSE IF value[1] = "\"" /\ value[Len(value)] = "\""
       THEN [type |-> named(<<"s","t","r","i","n","g">>), A |-> A]
       ELSE [type |-> named(<<"i","n","t">>), A |-> A]

\* GetExpressionType yields [type, A]; A.thrown is set where it throws
GetExpressionType(A, expression) ==
    IF Halted(A) THEN [type |-> Null, A |-> A]
    ELSE IF expression.nodeType = "Identifier"
    THEN CloneType(A, A.notes[expression.id].evaluatedType)
    ELSE IF expression.nodeType = "Literal"
    THEN GetLiteralType(A, expression)
    ELSE IF expression.nodeType = "BinaryExpression"
    THEN CloneType(A, A.notes[expression.id].evaluatedType)
    ELSE IF expression.nodeType = "FunctionCall"
    THEN \* resolvedFunction is never assigned: ->type reads through nullptr
         CloneType(A, Null)
    ELSE IF expression.nodeType = "ArrayLiteral"
    THEN \* ArrayLiteralNode::evaluatedType is never assigned
         CloneType(A, Null)
    ELSE [type |-> Null, A |-> [A EXCEPT !.thrown = "Unsupported expression type"]]

\* CheckForReturns as the value it leaves in hasReturn
RECURSIVE CheckForReturns(_, _), CheckForReturnsChildren(_, _)
CheckForReturns(node, hasReturn) ==
    IF hasReturn THEN TRUE
    ELSE IF node.nodeType = "ReturnStatement" THEN TRUE
    ELSE IF node.nodeType = "IfStatement"
    THEN LET h == CheckForReturns(node.thenBranch, hasReturn)
         IN IF node.elseBranch # Null THEN CheckForReturns(node.elseBranch, h) ELSE h
    ELSE LET container == AsIHasChildren(node)
         IN IF container # Null
            THEN CheckForReturnsChildren(GetChildren(container), hasReturn)
            ELSE hasReturn

CheckForReturnsChildren(children, hasReturn) ==
    IF children = <<>> \/ hasReturn THEN hasReturn
    ELSE CheckForReturnsChildren(Tail(children),
                                 CheckForReturns(Head(children), hasReturn))

(***************************************************************************)
(* Pass 1: declaration collection.                                         *)
(***************************************************************************)
RECURSIVE DeclarationPass(_, _), DeclarationPassEach(_, _),
          HandleProgramDeclaration(_, _), HandleClassDeclaration(_, _)

\* AddParameter: symbol->type = CloneType(type), then the store
AddParameter(A, name, type) ==
    IF Halted(A) THEN A
    ELSE LET c == CloneType(A, type)
         IN IF Halted(c.A) THEN c.A
            ELSE StoreSymbol(NewSymbol(c.A, "Variable", name, c.type), name)

RECURSIVE AddParameters(_, _)
AddParameters(A, parameters) ==
    IF parameters = <<>> \/ Halted(A) THEN A
    ELSE AddParameters(AddParameter(A, Head(parameters).name, Head(parameters).type),
                       Tail(parameters))

\* it leaves the parameter scope and the body scope on the stack
HandleFunctionDeclaration(A, function) ==
    LET c == CloneType(A, function.returnType)
        A1 == NewSymbol(c.A, "Function", function.name, c.type)
        A2 == [A1 EXCEPT !.notes[function.id].symbol = Len(A1.symbols)]
        A3 == StoreSymbol(A2, function.name)
        A4 == AddParameters(PushScope(A3), function.parameters)
    IN IF Halted(c.A) THEN c.A
       ELSE IF Halted(A3) THEN A3
       ELSE IF Halted(A4) THEN A4
       ELSE PushScope(A4)

\* a declaration that looks the name up through the enclosing scopes as well
HandleVariableDeclarationVisible(A, variable) ==
    LET s == currentScope(A)
        A0 == IF s = 0 THEN NullDeref(A) ELSE A
        c == CloneType(A0, variable.declaredType)
        A1 == NewSymbol(c.A, "Variable", variable.name, c.type)
        sym == Len(A1.symbols)
        A2 == [A1 EXCEPT !.symbols[sym].declarationSite = variable.id,
                         !.symbols[sym].scope = s,
                         !.symbols[sym].isInitialized = (variable.initializer # Null),
                         !.notes[variable.id].symbol = sym]
    IN IF Halted(A0) THEN A0
       ELSE IF s # 0 /\ Lookup(A, s, variable.name) # 0
       THEN Error(A0, "Duplicate variable declaration: " \o Str(variable.name))
       ELSE IF variable.declaredType = Null
       THEN Error(A0, "Missing type annotation for variable: " \o Str(variable.name))
       ELSE StoreSymbol(A2, variable.name)

HandleVariableDeclaration(A, variable) ==
    LET s == currentScope(A)
        A0 == IF s = 0 THEN NullDeref(A) ELSE A
        c == CloneType(A0, variable.declaredType)
        A1 == NewSymbol(c.A, "Variable", variable.name, c.type)
        sym == Len(A1.symbols)
        A2 == [A1 EXCEPT !.symbols[sym].declarationSite = variable.id,
                         !.symbols[sym].scope = s,
                         !.symbols[sym].isInitialized = (variable.initializer # Null),
                         !.notes[variable.id].symbol = sym]
    IN IF Halted(A0) THEN A0
       ELSE IF s # 0 /\ Find(A.scopes[s], variable.name) # 0
       THEN Error(A0, "Duplicate variable declaration: " \o Str(variable.name))
       ELSE IF variable.declaredType = Null
       THEN Error(A0, "Missing type annotation for variable: " \o Str(variable.name))
       ELSE StoreSymbol(A2, variable.name)

DeclarationPassEach(A, nodes) ==
    IF nodes = <<>> \/ Halted(A) THEN A
    ELSE DeclarationPassEach(DeclarationPass(A, Head(nodes)), Tail(nodes))

HandleProgramDeclaration(A, program) ==
    LET A1 == DeclarationPassEach(PushScope(A), program.declarations)
    IN IF Halted(A1) THEN A1 ELSE PopScope(A1)

HandleClassDeclaration(A, classDeclaration) ==
    LET A1 == NewSymbol(A, "Class", classDeclaration.name, Null)
        A2 == [A1 EXCEPT !.notes[classDeclaration.id].symbol = Len(A1.symbols)]
        A3 == StoreSymbol(A2, classDeclaration.name)
        A4 == PushScope(A3)
        A5 == IF classDeclaration.body.nodeType = "ClassBlock"
              THEN DeclarationPassEach(A4, classDeclaration.body.declarations)
              ELSE A4
    IN IF Halted(A3) THEN A3
       ELSE IF Halted(A5) THEN A5
       ELSE PopScope(A5)

DeclarationPass(A0, node) ==
    IF Halted(A0) THEN A0
    ELSE LET A == Visit(A0, "DeclarationPass", node)
         IN IF node.nodeType = "Program" THEN HandleProgramDeclaration(A, node)
            ELSE IF node.nodeType = "FunctionDeclaration"
            THEN HandleFunctionDeclaration(A, node)
            ELSE IF node.nodeType = "ClassDeclaration"
            THEN HandleClassDeclaration(A, node)
            ELSE IF node.nodeType = "VariableDeclaration"
            THEN HandleVariableDeclaration(A, node)
            ELSE LET container == AsIHasDeclarations(node)
                 IN IF container # Null
                    THEN DeclarationPassEach(A, GetDeclarations(container))
                    ELSE A

(***************************************************************************)
(* Pass 2: type resolution and checking.                                   *)
(***************************************************************************)
RECURSIVE TypeResolutionPass(_, _), TypeResolutionPassEach(_, _),
          ResolveFunctionType(_, _), ResolveBinaryExpression(_, _),
          HandleWhileLoop(_, _), HandleForLoop(_, _)

ResolveVariableType(A, variable) ==
    IF variable.declaredType = Null
    THEN Error(A, "Missing type annotation for variable: " \o Str(variable.name))
    ELSE LET initType == GetExpressionType(A, variable.initializer)
             A1 == IF variable.initializer = Null THEN A
                   ELSE IF Halted(initType.A) THEN initType.A
                   ELSE IF ~CheckTypeCompatibility(variable.declaredType, initType.type)
                   THEN Error(initType.A,
                              "Type mismatch in variable '" \o Str(variable.name)
                              \o "'. Declared: " \o Str(variable.declaredType.name)
                              \o ", Inferred: " \o Str(initType.type.name))
                   ELSE initType.A
             c == CloneType(A1, variable.declaredType)
         IN IF Halted(A1) THEN A1
            ELSE [c.A EXCEPT !.notes[variable.id].resolvedType = c.type]

ResolveIdentifier(A, identifier) ==
    LET s == currentScope(A)
        symbol == IF s = 0 THEN 0 ELSE Lookup(A, s, identifier.name)
        A0 == IF s = 0 THEN NullDeref(A) ELSE A
        c == CloneType(A0, A0.symbols[symbol].type)
    IN IF Halted(A0) THEN A0
       ELSE IF symbol # 0
       THEN IF Halted(c.A) THEN c.A
            ELSE [c.A EXCEPT !.notes[identifier.id].resolvedSymbol = symbol,
                             !.notes[identifier.id].evaluatedType = c.type]
       ELSE Error(A0, "Undefined identifier: " \o Str(identifier.name))

TypeResolutionPassEach(A, nodes) ==
    IF nodes = <<>> \/ Halted(A) THEN A
    ELSE TypeResolutionPassEach(TypeResolutionPass(A, Head(nodes)), Tail(nodes))

ResolveFunctionType(A, function) ==
    LET A1 == IF function.body.nodeType = "Block"
              THEN TypeResolutionPassEach(A, function.body.statements)
              ELSE A
    IN IF Halted(A1) THEN A1 ELSE PopScope(PopScope(A1))

ResolveBinaryExpression(A, expression) ==
    LET A1 == TypeResolutionPass(A, expression.left)
        A2 == TypeResolutionPass(A1, expression.right)
        leftType == GetExpressionType(A2, expression.left)
        rightType == GetExpressionType(leftType.A, expression.right)
        A3 == rightType.A
        compatible == CheckTypeCompatibility(leftType.type, rightType.type)
        c == CloneType(IF compatible THEN A3
                       ELSE Error(A3, IF expression.op = "Assign"
                                      THEN "Assignment type mismatch"
                                      ELSE "Operand type mismatch in binary expression"),
                       leftType.type)
        bool == [nodeType |-> "Type", name |-> <<"b","o","o","l">>,
                 array |-> FALSE, isConst |-> FALSE]
    IN IF Halted(A3) THEN A3
       ELSE IF expression.op = "Assign"
       THEN [c.A EXCEPT !.notes[expression.id].evaluatedType = c.type]
       ELSE IF expression.op \in {"LogicalAnd", "LogicalOr", "Equal", "NotEqual",
                                  "Less", "Greater", "LessEqual", "GreaterEqual"}
       THEN [c.A EXCEPT !.notes[expression.id].evaluatedType = bool]
       ELSE [c.A EXCEPT !.notes[expression.id].evaluatedType = c.type]

HandleWhileLoop(A, node) ==
    LET A1 == TypeResolutionPass(A, node.condition)
        condType == GetExpressionType(A1, node.condition)
        A2 == IF Halted(condType.A) THEN condType.A
              ELSE IF Str(condType.type.name) # "bool"
              THEN Error(condType.A, "While condition must be boolean")
              ELSE condType.A
        A3 == TypeResolutionPass([A2 EXCEPT !.loopDepth = @ + 1], node.body)
    IN IF Halted(A2) THEN A2
       ELSE IF Halted(A3) THEN A3
       ELSE [A3 EXCEPT !.loopDepth = @ - 1]

HandleForLoop(A, node) ==
    LET A1 == IF node.init # Null THEN TypeResolutionPass(A, node.init) ELSE A
        condType == GetExpressionType(A1, node.condition)
        A2 == IF node.condition = Null THEN A1
              ELSE IF Halted(condType.A) THEN condType.A
              ELSE IF Str(condType.type.name) # "bool"
              THEN Error(condType.A, "For loop condition must be boolean")
              ELSE condType.A
        A3 == IF node.update # Null THEN TypeResolutionPass(A2, node.update) ELSE A2
        A4 == TypeResolutionPass([A3 EXCEPT !.loopDepth = @ + 1], node.body)
    IN IF Halted(A3) THEN A3
       ELSE IF Halted(A4) THEN A4
       ELSE [A4 EXCEPT !.loopDepth = @ - 1]

TypeResolutionPass(A0, node) ==
    IF Halted(A0) THEN A0
    ELSE LET A == Visit(A0, "TypeResolutionPass", node)
         IN IF node.nodeType = "VariableDeclaration" THEN ResolveVariableType(A, node)
            ELSE IF node.nodeType = "FunctionDeclaration" THEN ResolveFunctionType(A, node)
            ELSE IF node.nodeType = "BinaryExpression" THEN ResolveBinaryExpression(A, node)
            ELSE IF node.nodeType = "Identifier" THEN ResolveIdentifier(A, node)
            ELSE IF node.nodeType = "WhileStatement" THEN HandleWhileLoop(A, node)
            ELSE IF node.nodeType = "ForStatement" THEN HandleForLoop(A, node)
            ELSE LET container == AsIHasChildren(node)
                 IN IF container # Null
                    THEN TypeResolutionPassEach(A, GetChildren(container))
                    ELSE A

(***************************************************************************)
(* Pass 3: semantic validation.                                            *)
(***************************************************************************)
ValidateReturn(A, returnStatement) ==
    IF A.currentFunction = Null
    THEN Error(A, "Return statement outside function")
    ELSE LET returnType ==
                 IF returnStatement.expression # Null
                 THEN GetExpressionType(A, returnStatement.expression)
                 ELSE [type |-> [nodeType |-> "Type", name |-> <<"v","o","i","d">>,
                                 array |-> FALSE, isConst |-> FALSE],
                       A |-> A]
             declared == ReadType(returnType.A, A.currentFunction.returnType)
         IN IF Halted(returnType.A) THEN returnType.A
            ELSE IF Halted(declared.A) THEN declared.A
            ELSE IF ~CheckTypeCompatibility(declared.type, returnType.type)
            THEN Error(declared.A, "Return type mismatch in function "
                                   \o Str(A.currentFunction.name))
            ELSE declared.A

ValidateLoopControl(A, node) ==
    IF A.loopDepth = 0
    THEN Error(A, IF node.nodeType = "BreakStatement"
                  THEN "Break statement outside loop"
                  ELSE "Continue statement outside loop")
    ELSE A

\* function->symbol->type.get(): the symbol may be nullptr (pass 1 never saw
\* the function) or destroyed with its scope; a read of a destroyed Symbol
\* finds the old contents or whatever replaced them
ValidateFunction(A, function) ==
    LET symbol == A.notes[function.id].symbol
        read == IF symbol = 0 THEN ReadType(A, Null)
                ELSE IF A.symbols[symbol].alive \/ ub.view = "kept"
                THEN ReadType(A, A.symbols[symbol].type)
                ELSE ReadType(A, Null)
        returnType == read.type
        hasReturn == CheckForReturns(function.body, FALSE)
    IN IF Halted(read.A) THEN read.A
       ELSE IF Str(returnType.name) = "void" THEN read.A
       ELSE IF ~hasReturn
       THEN Error(read.A, "Function '" \o Str(function.name)
                          \o "' with return type '" \o Str(returnType.name)
                          \o "' lacks return statement")
       ELSE read.A

RECURSIVE ValidationPass(_, _), ValidationPassEach(_, _)
ValidationPassEach(A, nodes) ==
    IF nodes = <<>> \/ Halted(A) THEN A
    ELSE ValidationPassEach(ValidationPass(A, Head(nodes)), Tail(nodes))

ValidationPass(A0, node) ==
    IF Halted(A0) THEN A0
    ELSE LET A == Visit(A0, "ValidationPass", node)
         IN IF node.nodeType = "ReturnStatement" THEN ValidateReturn(A, node)
            ELSE IF node.nodeType \in {"BreakStatement", "ContinueStatement"}
            THEN ValidateLoopControl(A, node)
            ELSE IF node.nodeType = "FunctionDeclaration" THEN ValidateFunction(A, node)
            ELSE LET container == AsIHasChildren(node)
                 IN IF container # Null
                    THEN ValidationPassEach(A, GetChildren(container))
                    ELSE A

(***************************************************************************)
(* Source texts.  The programs of the corpus, and every text of up to      *)
(* MaxSrcLen characters over Alphabet.                                     *)
(***************************************************************************)
Src ==
    [
      \* let x: int = 42;
      Let |->
        <<"l","e","t"," ","x",":"," ","i","n","t"," ","="," ","4","2",";">>,
      \* var x: int = 42;
      Var |->
        <<"v","a","r"," ","x",":"," ","i","n","t"," ","="," ","4","2",";">>,
      \* var x: int = 3.14;
      FloatInit |->
        <<"v","a","r"," ","x",":"," ","i","n","t"," ","="," ","3",".","1",
          "4",";">>,
      \* fun add(a: int, b: int): int { return a + b; }
      Add |->
        <<"f","u","n"," ","a","d","d","(","a",":"," ","i","n","t",","," ",
          "b",":"," ","i","n","t",")",":"," ","i","n","t"," ","{"," ","r",
          "e","t","u","r","n"," ","a"," ","+"," ","b",";"," ","}">>,
      \* fun f(): int { return y; }
      Undefined |->
        <<"f","u","n"," ","f","(",")",":"," ","i","n","t"," ","{"," ","r",
          "e","t","u","r","n"," ","y",";"," ","}">>,
      \* fun f() { break; }
      BreakNoType |->
        <<"f","u","n"," ","f","(",")"," ","{"," ","b","r","e","a","k",";",
          " ","}">>,
      \* fun f(): void { break; }
      Break |->
        <<"f","u","n"," ","f","(",")",":"," ","v","o","i","d"," ","{"," ",
          "b","r","e","a","k",";"," ","}">>,
      \* fun f(): void { continue; }
      Continue |->
        <<"f","u","n"," ","f","(",")",":"," ","v","o","i","d"," ","{"," ",
          "c","o","n","t","i","n","u","e",";"," ","}">>,
      \* fun f(): void { while (1 == 1) { break; } }
      WhileBreak |->
        <<"f","u","n"," ","f","(",")",":"," ","v","o","i","d"," ","{"," ",
          "w","h","i","l","e"," ","(","1"," ","=","="," ","1",")"," ","{",
          " ","b","r","e","a","k",";"," ","}"," ","}">>,
      \* fun f(): void { for (var i: int = 0; i < 1; i = i + 1) { continue; } }
      ForContinue |->
        <<"f","u","n"," ","f","(",")",":"," ","v","o","i","d"," ","{"," ",
          "f","o","r"," ","(","v","a","r"," ","i",":"," ","i","n","t"," ",
          "="," ","0",";"," ","i"," ","<"," ","1",";"," ","i"," ","="," ",
          "i"," ","+"," ","1",")"," ","{"," ","c","o","n","t","i","n","u",
          "e",";"," ","}"," ","}">>,
      \* fun g(): int { }
      NoReturn |->
        <<"f","u","n"," ","g","(",")",":"," ","i","n","t"," ","{"," ","}">>,
      \* fun g(): int { return 1; }
      Return |->
        <<"f","u","n"," ","g","(",")",":"," ","i","n","t"," ","{"," ","r",
          "e","t","u","r","n"," ","1",";"," ","}">>,
      \* fun g(): int { if (1 == 1) { return 1; } else { return 2; } }
      IfReturn |->
        <<"f","u","n"," ","g","(",")",":"," ","i","n","t"," ","{"," ","i",
          "f"," ","(","1"," ","=","="," ","1",")"," ","{"," ","r","e","t",
          "u","r","n"," ","1",";"," ","}"," ","e","l","s","e"," ","{"," ",
          "r","e","t","u","r","n"," ","2",";"," ","}"," ","}">>,
      \* var s: string = "oops
      Unterminated |->
        <<"v","a","r"," ","s",":"," ","s","t","r","i","n","g"," ","="," ",
          "\"","o","o","p","s">>,
      \* var s: string = "hi";
      String |->
        <<"v","a","r"," ","s",":"," ","s","t","r","i","n","g"," ","="," ",
          "\"","h","i","\"",";">>,
      \* var x: int = 1; var x: int = 2;
      Duplicate |->
        <<"v","a","r"," ","x",":"," ","i","n","t"," ","="," ","1",";"," ",
          "v","a","r"," ","x",":"," ","i","n","t"," ","="," ","2",";">>,
      \* var x: int = 1;
      \* var y: int = x;
      TwoVars |->
        <<"v","a","r"," ","x",":"," ","i","n","t"," ","="," ","1",";","\n",
          "v","a","r"," ","y",":"," ","i","n","t"," ","="," ","x",";">>,
      \* class C { var x: int = 1; }
      Class |->
        <<"c","l","a","s","s"," ","C"," ","{"," ","v","a","r"," ","x",":",
          " ","i","n","t"," ","="," ","1",";"," ","}">>,
      \* enum E { A, B }
      Enum |->
        <<"e","n","u","m"," ","E"," ","{"," ","A",","," ","B"," ","}">>,
      \* var x: int = 1 + -1;
      Unary |->
        <<"v","a","r"," ","x",":"," ","i","n","t"," ","="," ","1"," ","+",
          " ","-","1",";">>,
      \* fun f(): void { x = 1; }
      Assign |->
        <<"f","u","n"," ","f","(",")",":"," ","v","o","i","d"," ","{"," ",
          "x"," ","="," ","1",";"," ","}">>,
      \* fun f(): void { g(1); }
      Call |->
        <<"f","u","n"," ","f","(",")",":"," ","v","o","i","d"," ","{"," ",
          "g","(","1",")",";"," ","}">>,
      \* var x int = 1;
      NoColon |->
        <<"v","a","r"," ","x"," ","i","n","t"," ","="," ","1",";">>,
      \* var x: int = 1;
      \* var y int = 2;
      SecondLine |->
        <<"v","a","r"," ","x",":"," ","i","n","t"," ","="," ","1",";","\n",
          "v","a","r"," ","y"," ","i","n","t"," ","="," ","2",";">>,
      \* var x: int = @;
      Unknown |->
        <<"v","a","r"," ","x",":"," ","i","n","t"," ","="," ","@",";">>,
      \* fun f(): void { return; }
      VoidReturn |->
        <<"f","u","n"," ","f","(",")",":"," ","v","o","i","d"," ","{"," ",
          "r","e","t","u","r","n",";"," ","}">>,
      \* var a: [int] = [1, 2];
      Array |->
        <<"v","a","r"," ","a",":"," ","[","i","n","t","]"," ","="," ","[",
          "1",","," ","2","]",";">>,
      \* fun f(): void { } var x: int = 1;
      FunThenVar |->
        <<"f","u","n"," ","f","(",")",":"," ","v","o","i","d"," ","{"," ","}",
          " ","v","a","r"," ","x",":"," ","i","n","t"," ","="," ","1",";">>,
      \* var x: int = 1; class C { var x: int = 2; } var x: int = 3;
      Shadow |->
        <<"v","a","r"," ","x",":"," ","i","n","t"," ","="," ","1",";"," ",
          "c","l","a","s","s"," ","C"," ","{"," ","v","a","r"," ","x",":",
          " ","i","n","t"," ","="," ","2",";"," ","}"," ","v","a","r"," ",
          "x",":"," ","i","n","t"," ","="," ","3",";">>,
      \* class C { } class C { }
      ClassTwice |->
        <<"c","l","a","s","s"," ","C"," ","{"," ","}"," ","c","l","a","s",
          "s"," ","C"," ","{"," ","}">>,
      \* var b: bool = 1 <= 2 && 3 <> 4;
      Digraphs |->
        <<"v","a","r"," ","b",":"," ","b","o","o","l"," ","="," ","1"," ",
          "<","="," ","2"," ","&","&"," ","3"," ","<",">"," ","4",";">>,
      \* var x: bool = a < b < c;
      RelChainInit |->
        <<"v","a","r"," ","x",":"," ","b","o","o","l"," ","="," ","a"," ",
          "<"," ","b"," ","<"," ","c",";">>,
      \* fun f(): void { if (a < b < c) { } }
      RelChainIf |->
        <<"f","u","n"," ","f","(",")",":"," ","v","o","i","d"," ","{"," ",
          "i","f"," ","(","a"," ","<"," ","b"," ","<"," ","c",")"," ","{",
          " ","}"," ","}">>,
      \* fun f(): void { g(a < b < c); }
      RelChainArg |->
        <<"f","u","n"," ","f","(",")",":"," ","v","o","i","d"," ","{"," ",
          "g","(","a"," ","<"," ","b"," ","<"," ","c",")",";"," ","}">>,
      \* var x: [bool] = [a < b > c];
      RelChainArray |->
        <<"v","a","r"," ","x",":"," ","[","b","o","o","l","]"," ","="," ",
          "[","a"," ","<"," ","b"," ",">"," ","c","]",";">>,
      \* fun f(): bool { return a > b > c; }
      RelChainReturn |->
        <<"f","u","n"," ","f","(",")",":"," ","b","o","o","l"," ","{"," ",
          "r","e","t","u","r","n"," ","a"," ",">"," ","b"," ",">"," ","c",
          ";"," ","}">>,
      \* fun f(): void { x = a < b < c; }
      RelChainAssign |->
        <<"f","u","n"," ","f","(",")",":"," ","v","o","i","d"," ","{"," ",
          "x"," ","="," ","a"," ","<"," ","b"," ","<"," ","c",";"," ","}">>,
      \* var x: bool = a < b;
      Relational |->
        <<"v","a","r"," ","x",":"," ","b","o","o","l"," ","="," ","a"," ",
          "<"," ","b",";">>,
      \* var x: int = * 5;
      StarFive |->
        <<"v","a","r"," ","x",":"," ","i","n","t"," ","="," ","*"," ","5",
          ";">>,
      \* fun f(): void { while (1) { } }
      WhileInt |->
        <<"f","u","n"," ","f","(",")",":"," ","v","o","i","d"," ","{"," ",
          "w","h","i","l","e"," ","(","1",")"," ","{"," ","}"," ","}">>,
      \* var x: float = 1.5 * 2 + 1;
      Arith |->
        <<"v","a","r"," ","x",":"," ","f","l","o","a","t"," ","="," ","1",
          ".","5"," ","*"," ","2"," ","+"," ","1",";">>,
      \* var c: bool = 1.5 < 2;
      Compare |->
        <<"v","a","r"," ","c",":"," ","b","o","o","l"," ","="," ","1",".",
          "5"," ","<"," ","2",";">>,
      \* var a: int = 1 = 2.5;
      AssignLit |->
        <<"v","a","r"," ","a",":"," ","i","n","t"," ","="," ","1"," ","=",
          " ","2",".","5",";">>,
      \* fun f(): void {
      OpenBlock |->
        <<"f","u","n"," ","f","(",")",":"," ","v","o","i","d"," ","{">>,
      \* class C {
      OpenClass |->
        <<"c","l","a","s","s"," ","C"," ","{">>,
      \* fun f(): void { switch (x) {
      OpenSwitch |->
        <<"f","u","n"," ","f","(",")",":"," ","v","o","i","d"," ","{"," ",
          "s","w","i","t","c","h"," ","(","x",")"," ","{">>,
      \* // c
      Comment |->
        <<"/","/"," ","c">>,
      \* var x: int = 1
      NoSemicolon |->
        <<"v","a","r"," ","x",":"," ","i","n","t"," ","="," ","1">>
    ]

Corpus == {Src[name] : name \in DOMAIN Src}

\* one letter, one digit, the dot, the quote, an operator, a punctuation
\* mark, blank and newline, and a character no scanner takes
Alphabet == {"a", "1", ".", "\"", "=", ";", " ", "\n", "@"}

\* the texts of at most n characters over Alphabet
RECURSIVE Texts(_)
Texts(n) ==
    IF n = 0 THEN {<<>>}
    ELSE Texts(n - 1) \cup {Append(t, c) : t \in Texts(n - 1), c \in Alphabet}

Sweep == Texts(MaxSrcLen)

Sources == Corpus \cup Sweep

(***************************************************************************)
(* The nodes of a tree: any of them can be handed to the analyzer, whose   *)
(* constructor takes a reference to any ASTNodePtr.                        *)
(***************************************************************************)
Range(seq) == {seq[i] : i \in 1..Len(seq)}

\* the ASTNodePtr members of a node (src/src/AST.h) that are not nullptr
Children(node) ==
    LET t == node.nodeType
        all ==
          IF t = "Program" THEN Range(node.declarations)
          ELSE IF t = "VariableDeclaration" THEN {node.initializer}
          ELSE IF t \in {"FunctionDeclaration", "ClassDeclaration"} THEN {node.body}
          ELSE IF t = "Block" THEN Range(node.statements)
          ELSE IF t = "ClassBlock" THEN Range(node.declarations)
          ELSE IF t \in {"ExpressionStatement", "ReturnStatement"} THEN {node.expression}
          ELSE IF t = "IfStatement"
          THEN {node.condition, node.thenBranch, node.elseBranch}
          ELSE IF t = "ForStatement"
          THEN {node.init, node.condition, node.update, node.body}
          ELSE IF t = "WhileStatement" THEN {node.condition, node.body}
          ELSE IF t = "SwitchStatement"
          THEN {node.expression, node.defaultCase}
               \cup {c.expr : c \in Range(node.cases)}
               \cup {c.block : c \in Range(node.cases)}
          ELSE IF t = "MemberAccess" THEN {node.object}
          ELSE IF t = "BinaryExpression" THEN {node.left, node.right}
          ELSE IF t = "UnaryExpression" THEN {node.operand}
          ELSE IF t = "ArrayLiteral" THEN Range(node.elements)
          ELSE IF t = "FunctionCall" THEN Range(node.arguments) \cup {node.callTarget}
          ELSE {}
    IN {c \in all : c # Null}

RECURSIVE Subtree(_)
Subtree(node) ==
    IF node = Null THEN {}
    ELSE {node} \cup UNION {Subtree(c) : c \in Children(node)}

(***************************************************************************)
(* ErrorReporter (src/src/ErrorReporter.h): [m_phase, m_errors].           *)
(***************************************************************************)
\* explicit ErrorReporter(Phase phase)
ErrorReporter(phase) == [m_phase |-> phase, m_errors |-> <<>>]

\* m_errors.push_back({ line, column, message, severity, m_phase })
Report(R, line, column, message, severity) ==
    [R EXCEPT !.m_errors = Append(@, [line |-> line, column |-> column,
                                      message |-> message, severity |-> severity,
                                      phase |-> R.m_phase])]

GetPhase(R) == R.m_phase

GetErrors(R) == R.m_errors

HasErrors(R) == R.m_errors # <<>>

\* no call of CheckTypeCompatibility on its own
NoCall == [t1 |-> TypeNode(<<>>, FALSE), t2 |-> TypeNode(<<>>, FALSE), result |-> FALSE]

(***************************************************************************)
(* The state machine.  The driver tokenizes the source one NextToken at a  *)
(* time (Lexer::Tokenize), parses the tokens (Compiler::Run), and then a   *)
(* SemanticAnalyzer is constructed on a node of the tree and Analyze runs  *)
(* its three passes.                                                       *)
(***************************************************************************)
Init ==
    /\ pc = "Tokenize"
    /\ ub \in UBOutcomes
    /\ \E source \in Sources : lexer = Lexer(source)
    /\ tokens = <<>>
    /\ parser = Parser(<<>>)
    /\ ast = Null
    /\ sa = SemanticAnalyzer(Null, 0)
    /\ compat = NoCall
    /\ reporter = ErrorReporter("Lexer")

\* one round of the do-while of Lexer::Tokenize
TokenizeStep ==
    /\ pc = "Tokenize"
    /\ LET r == NextToken(lexer, ub)
       IN /\ tokens' = Append(tokens, r.tok)
          /\ lexer' = r.L
          /\ pc' = IF r.tok.type = "EndOfFile" THEN "ParseProgram" ELSE "Tokenize"
    /\ UNCHANGED <<reporter, compat, ub, parser, ast, sa>>

\* Compiler::Run after Tokenize: Parser parser(tokens); parser.ParseProgram()
RunParseProgram ==
    /\ pc = "ParseProgram"
    /\ tokens # <<>>
    /\ LET r == ParseProgram(Parser(tokens))
       IN /\ parser' = r.P
          /\ ast' = r.node
          /\ pc' = IF r.P.exited THEN "exit" ELSE "parsed"
    /\ UNCHANGED <<reporter, compat, ub, lexer, tokens, sa>>

\* SemanticAnalyzer analyzer(root)
Construct ==
    /\ pc = "parsed"
    /\ \E root \in Subtree(ast) : sa' = SemanticAnalyzer(root, parser.nextId - 1)
    /\ pc' = "DeclarationPass"
    /\ UNCHANGED <<reporter, compat, ub, lexer, tokens, parser, ast>>

\* where Analyze goes after a pass: on with the try block, to its catch
\* clause, or nowhere
After(A, next) ==
    IF A.crashed THEN "crashed" ELSE IF A.thrown # "" THEN "catch" ELSE next

AnalyzeDeclarationPass ==
    /\ pc = "DeclarationPass"
    /\ sa' = DeclarationPass(sa, sa.root)
    /\ pc' = After(sa', "TypeResolutionPass")
    /\ UNCHANGED <<reporter, compat, ub, lexer, tokens, parser, ast>>

AnalyzeTypeResolutionPass ==
    /\ pc = "TypeResolutionPass"
    /\ sa' = TypeResolutionPass(sa, sa.root)
    /\ pc' = After(sa', "ValidationPass")
    /\ UNCHANGED <<reporter, compat, ub, lexer, tokens, parser, ast>>

AnalyzeValidationPass ==
    /\ pc = "ValidationPass"
    /\ sa' = ValidationPass(sa, sa.root)
    /\ pc' = After(sa', "return")
    /\ UNCHANGED <<reporter, compat, ub, lexer, tokens, parser, ast>>

\* Analyze returning true whatever the error list holds
AnalyzeReturnTrue ==
    /\ pc = "return"
    /\ sa' = [sa EXCEPT !.result = "true"]
    /\ pc' = "done"
    /\ UNCHANGED <<reporter, compat, ub, lexer, tokens, parser, ast>>

\* return errors.empty();
AnalyzeReturn ==
    /\ pc = "return"
    /\ sa' = [sa EXCEPT !.result = IF sa.errors = <<>> THEN "true" ELSE "false"]
    /\ pc' = "done"
    /\ UNCHANGED <<reporter, compat, ub, lexer, tokens, parser, ast>>

\* catch (const std::exception& err)
AnalyzeCatch ==
    /\ pc = "catch"
    /\ sa' = [sa EXCEPT !.errors = Append(@, sa.thrown), !.thrown = "",
                        !.result = "false"]
    /\ pc' = "done"
    /\ UNCHANGED <<reporter, compat, ub, lexer, tokens, parser, ast>>

Next ==
    \/ TokenizeStep
    \/ RunParseProgram
    \/ Construct
    \/ AnalyzeDeclarationPass
    \/ AnalyzeTypeResolutionPass
    \/ AnalyzeValidationPass
    \/ AnalyzeReturn
    \/ AnalyzeCatch

Spec == Init /\ [][Next]_vars

(***************************************************************************)
(* CheckTypeCompatibility on its own: the two TypeNodes are drawn from the *)
(* names over TypeAlphabet up to MaxTypeLen characters and the names of    *)
(* the built-in types and their arrays, with either isConst; one call of   *)
(* the function is the only step.                                          *)
(***************************************************************************)
MaxTypeLen == 3

TypeAlphabet == {"[", "]", "i", "f"}

RECURSIVE TypeTexts(_)
TypeTexts(n) ==
    IF n = 0 THEN {<<>>}
    ELSE TypeTexts(n - 1) \cup {Append(t, c) : t \in TypeTexts(n - 1), c \in TypeAlphabet}

TypeNames ==
    TypeTexts(MaxTypeLen)
    \cup {<<"i","n","t">>, <<"f","l","o","a","t">>,
          <<"[","i","n","t","]">>, <<"[","f","l","o","a","t","]">>}

TypeNodes == {TypeNode(name, isConst) : name \in TypeNames, isConst \in BOOLEAN}

InitTypes ==
    /\ pc = "CheckTypeCompatibility"
    /\ ub = [trap |-> TRUE, name |-> <<"?">>, view |-> "gone"]
    /\ lexer = Lexer(<<>>)
    /\ tokens = <<>>
    /\ parser = Parser(<<>>)
    /\ ast = Null
    /\ sa = SemanticAnalyzer(Null, 0)
    /\ \E t1 \in TypeNodes, t2 \in TypeNodes :
          compat = [t1 |-> t1, t2 |-> t2, result |-> FALSE]
    /\ reporter = ErrorReporter("Lexer")

\* bool CheckTypeCompatibility(const TypeNode& t1, const TypeNode& t2)
CallCheckTypeCompatibility ==
    /\ pc = "CheckTypeCompatibility"
    /\ compat' = [compat EXCEPT !.result = CheckTypeCompatibility(compat.t1, compat.t2)]
    /\ pc' = "returned"
    /\ UNCHANGED <<ub, lexer, tokens, parser, ast, sa, reporter>>

NextTypes == CallCheckTypeCompatibility

SpecTypes == InitTypes /\ [][NextTypes]_vars

(***************************************************************************)
(* An ErrorReporter on its own: it is constructed for one phase, and then  *)
(* Report is called up to MaxReports times with either severity.           *)
(***************************************************************************)
MaxReports == 3

Phases == {"Lexer", "Parser", "Semantic"}

Severities == {"Error", "Warning"}

InitReporter ==
    /\ pc = "Report"
    /\ ub = [trap |-> TRUE, name |-> <<"?">>, view |-> "gone"]
    /\ lexer = Lexer(<<>>)
    /\ tokens = <<>>
    /\ parser = Parser(<<>>)
    /\ ast = Null
    /\ sa = SemanticAnalyzer(Null, 0)
    /\ compat = NoCall
    /\ \E phase \in Phases : reporter = ErrorReporter(phase)

\* void Report(line, column, message, severity = Severity::Error)
CallReport ==
    /\ pc = "Report"
    /\ Len(reporter.m_errors) < MaxReports
    /\ \E line \in 1..2, message \in {"m", "n"}, severity \in Severities :
          reporter' = Report(reporter, line, 1, message, severity)
    /\ UNCHANGED <<pc, ub, lexer, tokens, parser, ast, sa, compat>>

NextReporter == CallReport

SpecReporter == InitReporter /\ [][NextReporter]_vars

(***************************************************************************)
(* The parser on the tokens of `var x: int = E;` for every expression E of *)
(* up to MaxOperands operands (an identifier, or a number under a unary    *)
(* minus) joined by the binary operators the parser knows.                 *)
(* The tokens are handed to Parser(tokens) as Compiler::Run does.          *)
(***************************************************************************)
MaxOperands == 3

ExprOperands ==
    {<<[type |-> "Identifier", lexeme |-> <<"a">>]>>,
     <<[type |-> "Operator", lexeme |-> <<"-">>], [type |-> "Number", lexeme |-> <<"1">>]>>}

ExprOperators ==
    {[type |-> "Operator", lexeme |-> l] :
        l \in {<<"=">>, <<"|","|">>, <<"&","&">>, <<"=","=">>, <<"!","=">>,
               <<"<">>, <<">">>, <<"<","=">>, <<">","=">>,
               <<"+">>, <<"-">>, <<"*">>, <<"/">>, <<"%">>}}

RECURSIVE Expressions(_)
Expressions(n) ==
    IF n = 1 THEN ExprOperands
    ELSE Expressions(n - 1)
         \cup {e \o <<op>> \o operand :
                  e \in Expressions(n - 1), op \in ExprOperators, operand \in ExprOperands}

\* the Token vector of `var x: int = E;`, each token at its place in a line
StatementTokens(expression) ==
    LET text == <<[type |-> "Keyword", lexeme |-> <<"v","a","r">>],
                  [type |-> "Identifier", lexeme |-> <<"x">>],
                  [type |-> "Punctuation", lexeme |-> <<":">>],
                  [type |-> "Keyword", lexeme |-> <<"i","n","t">>],
                  [type |-> "Operator", lexeme |-> <<"=">>]>>
                 \o expression
                 \o <<[type |-> "Punctuation", lexeme |-> <<";">>],
                      [type |-> "EndOfFile", lexeme |-> <<>>]>>
    IN [i \in 1..Len(text) |->
           [type |-> text[i].type, lexeme |-> text[i].lexeme, line |-> 1, column |-> i]]

InitExpr ==
    /\ pc = "ParseProgram"
    /\ ub = [trap |-> TRUE, name |-> <<"?">>, view |-> "gone"]
    /\ lexer = Lexer(<<>>)
    /\ \E expression \in Expressions(MaxOperands) : tokens = StatementTokens(expression)
    /\ parser = Parser(<<>>)
    /\ ast = Null
    /\ sa = SemanticAnalyzer(Null, 0)
    /\ compat = NoCall
    /\ reporter = ErrorReporter("Lexer")

NextExpr == RunParseProgram

SpecExpr == InitExpr /\ [][NextExpr]_vars

(***************************************************************************)
(* Properties.  Each is stated over the run of the driver on one source:   *)
(* lexer.source is the text, tokens what Tokenize returned, parser and ast *)
(* what ParseProgram left, sa the analyzer after Analyze.                  *)
(***************************************************************************)

\* C1: the pipeline on "let x: int = 42;" yields a Program with exactly one
\* VariableDeclaration, named x, of declared type int with isConst set and a
\* Literal 42 as initializer; the parser writes no diagnostic; and Analyze on
\* that Program returns true with no error.
C1_LetPipeline ==
    lexer.source = Src.Let =>
        /\ parser.stderr = <<>>
        /\ pc # "exit"
        /\ pc \notin {"Tokenize", "ParseProgram"} =>
              /\ ast.nodeType = "Program"
              /\ Len(ast.declarations) = 1
              /\ ast.declarations[1].nodeType = "VariableDeclaration"
              /\ ast.declarations[1].name = <<"x">>
              /\ ast.declarations[1].declaredType.name = <<"i", "n", "t">>
              /\ ast.declarations[1].declaredType.isConst
              /\ ast.declarations[1].initializer.nodeType = "Literal"
              /\ ast.declarations[1].initializer.value = <<"4", "2">>
        /\ (pc = "done" /\ sa.root = ast) => (sa.result = "true" /\ sa.errors = <<>>)
        /\ pc # "crashed"

\* C2: Tokenize ends on every source, and what it returns holds exactly one
\* EndOfFile token, the last one.  While the loop runs no token is an
\* EndOfFile and every token has used up at least one character of the
\* source, so the loop takes at most Len(source) + 1 rounds.
C2_TokenizeEndsWithOneEndOfFile ==
    /\ lexer.offset <= Len(lexer.source)
    /\ pc = "Tokenize" =>
          /\ \A i \in 1..Len(tokens) : tokens[i].type # "EndOfFile"
          /\ Len(tokens) <= lexer.offset
    /\ pc # "Tokenize" =>
          /\ tokens # <<>>
          /\ tokens[Len(tokens)].type = "EndOfFile"
          /\ \A i \in 1..(Len(tokens) - 1) : tokens[i].type # "EndOfFile"
          /\ Len(tokens) <= Len(lexer.source) + 1

\* C2 happens: the source that ends inside a string literal has been
\* tokenized, the open string being the token before the EndOfFile
C2_UnterminatedStringTokenized ==
    /\ pc = "ParseProgram"
    /\ lexer.source = Src.Unterminated
    /\ tokens[Len(tokens) - 1].type = "String"
    /\ tokens[Len(tokens)].type = "EndOfFile"

\* C3: Analyze returns true exactly when the error list is empty at the
\* return, and false when a pass reported an error or a failure was caught
\* and recorded.
C3_AnalyzeTrueIffNoErrors ==
    pc = "done" =>
        /\ sa.result \in {"true", "false"}
        /\ sa.result = "true" <=> sa.errors = <<>>
        /\ sa.thrown = ""

\* C3 happens: Analyze on the Program with the duplicate declaration has
\* returned false, with the error of the declaration pass in the list
C3_DuplicateReturnsFalse ==
    /\ pc = "done"
    /\ lexer.source = Src.Duplicate
    /\ sa.root = ast
    /\ sa.result = "false"
    /\ sa.errors # <<>>

\* C4: on every Program the parser produces, Analyze runs the declaration
\* pass, then the type-resolution pass, then the validation pass, each to
\* its end and each once, whatever errors the earlier passes reported: no
\* run stops or leaves the try block before the third pass has returned.
C4_ThreePassesRunInOrder ==
    (sa.root.nodeType = "Program" /\ pc \in {"catch", "crashed", "done"}) =>
        /\ pc = "done"
        /\ sa.thrown = ""
        /\ ~sa.crashed
        /\ SelectSeq(sa.visited, LAMBDA v : v.node = sa.root.id)
             = << [pass |-> "DeclarationPass", node |-> sa.root.id, loopDepth |-> 0],
                  [pass |-> "TypeResolutionPass", node |-> sa.root.id, loopDepth |-> 0],
                  [pass |-> "ValidationPass", node |-> sa.root.id, loopDepth |-> 0] >>

\* C5: when Analyze has run on a Program with a variable declaration whose
\* declared type differs from the type of its literal initializer (int
\* against 3.14), it returned false and the error list holds the Type
\* mismatch message with the declared and the inferred type.
C5_TypeMismatchReported ==
    (pc = "done" /\ sa.root.nodeType = "Program") =>
        \A d \in Subtree(sa.root) :
            (/\ d.nodeType = "VariableDeclaration"
             /\ d.declaredType # Null
             /\ d.initializer.nodeType = "Literal"
             /\ d.initializer.value # <<>>
             /\ ~CheckTypeCompatibility(d.declaredType,
                                        GetLiteralType(sa, d.initializer).type))
            => /\ sa.result = "false"
               /\ \E i \in 1..Len(sa.errors) :
                     sa.errors[i] =
                         "Type mismatch in variable '" \o Str(d.name)
                         \o "'. Declared: " \o Str(d.declaredType.name)
                         \o ", Inferred: "
                         \o Str(GetLiteralType(sa, d.initializer).type.name)

\* C6: when Analyze has run on a Program, every Identifier inside a function
\* body either has a resolvedSymbol whose name is the identifier's name, or
\* the error list holds "Undefined identifier: <name>" for it.
C6_IdentifiersResolvedOrReported ==
    (pc = "done" /\ sa.root.nodeType = "Program") =>
        \A f \in Subtree(sa.root) :
            f.nodeType = "FunctionDeclaration" =>
                \A n \in Subtree(f.body) :
                    n.nodeType = "Identifier" =>
                        \/ /\ sa.notes[n.id].resolvedSymbol # 0
                           /\ sa.symbols[sa.notes[n.id].resolvedSymbol].name = n.name
                        \/ \E i \in 1..Len(sa.errors) :
                              sa.errors[i] = "Undefined identifier: " \o Str(n.name)

\* C7: when Analyze has run on a Program with a break or continue that is in
\* no loop body, the error list holds "Break statement outside loop" or
\* "Continue statement outside loop" respectively and Analyze returned false.
C7_LoopControlOutsideLoopReported ==
    (pc = "done" /\ sa.root.nodeType = "Program") =>
        LET loops == {l \in Subtree(sa.root) :
                         l.nodeType \in {"WhileStatement", "ForStatement"}}
            inLoop == UNION {Subtree(l.body) : l \in loops}
        IN \A n \in Subtree(sa.root) \ inLoop :
              n.nodeType \in {"BreakStatement", "ContinueStatement"} =>
                  /\ sa.result = "false"
                  /\ \E i \in 1..Len(sa.errors) :
                        sa.errors[i] = IF n.nodeType = "BreakStatement"
                                       THEN "Break statement outside loop"
                                       ELSE "Continue statement outside loop"

\* C8: when Analyze has run on a Program with a break or continue inside the
\* body of a while or for loop, the validation pass came to that statement
\* with loopDepth at least 1, reported no outside-loop error, and the node's
\* isInsideLoop is true.
C8_LoopControlInsideLoopAccepted ==
    (pc = "done" /\ sa.root.nodeType = "Program") =>
        LET loops == {l \in Subtree(sa.root) :
                         l.nodeType \in {"WhileStatement", "ForStatement"}}
            inLoop == UNION {Subtree(l.body) : l \in loops}
        IN \A n \in inLoop :
              n.nodeType \in {"BreakStatement", "ContinueStatement"} =>
                  /\ \E i \in 1..Len(sa.visited) :
                        /\ sa.visited[i].pass = "ValidationPass"
                        /\ sa.visited[i].node = n.id
                        /\ sa.visited[i].loopDepth >= 1
                  /\ \A i \in 1..Len(sa.errors) :
                        sa.errors[i] \notin {"Break statement outside loop",
                                             "Continue statement outside loop"}
                  /\ sa.notes[n.id].isInsideLoop

\* C9: when Analyze has run on a Program, a function with a declared return
\* type other than void has the "lacks return statement" error in the list
\* exactly when its body holds no return statement.
C9_MissingReturnReportedIffNoReturn ==
    (pc = "done" /\ sa.root.nodeType = "Program") =>
        \A f \in Subtree(sa.root) :
            (/\ f.nodeType = "FunctionDeclaration"
             /\ f.returnType # Null
             /\ Str(f.returnType.name) # "void")
            => ((\E i \in 1..Len(sa.errors) :
                    sa.errors[i] = "Function '" \o Str(f.name)
                                   \o "' with return type '" \o Str(f.returnType.name)
                                   \o "' lacks return statement")
                <=> ~\E n \in Subtree(f.body) : n.nodeType = "ReturnStatement")

\* C10: when ParseProgram meets a syntax violation, std::cerr holds exactly
\* one diagnostic, "[Line L, Column C] Error: <message>" with L and C the
\* line and column of the token at m_current, the token the parser stopped
\* at and did not consume; the run ends there with no Program returned and
\* no analyzer constructed.  A parse without violation writes nothing.
C10_OneDiagnosticAtCurrentToken ==
    /\ (pc = "exit") <=> parser.exited
    /\ ~parser.exited => parser.stderr = <<>>
    /\ parser.exited =>
          /\ Len(parser.stderr) = 1
          /\ LET d == parser.stderr[1]
                 token == tokens[parser.m_current + 1]
             IN /\ d.at = parser.m_current
                /\ d.line = token.line
                /\ d.column = token.column
                /\ d.text = "[Line " \o ToString(token.line) \o ", Column "
                            \o ToString(token.column) \o "] Error: " \o d.message
          /\ ast = Null
          /\ sa = SemanticAnalyzer(Null, 0)
          /\ ~ENABLED Next

\* the missing ':' on the second line of Src.SecondLine: the diagnostic names
\* line 2 and the token `int`, after seven tokens of the first declaration
\* and two of the second were consumed
C10_SecondLineDiagnostic ==
    /\ pc = "exit"
    /\ lexer.source = Src.SecondLine
    /\ Len(parser.stderr) = 1
    /\ parser.stderr[1].text = "[Line 2, Column 10] Error: Expected ':' after variable name."
    /\ parser.m_current = 9
    /\ Str(tokens[parser.m_current + 1].lexeme) = "int"

\* C11: while ParseProgram runs on the tokens Tokenize returned (non-empty,
\* the last one the only EndOfFile), m_current never passes the index of the
\* EndOfFile token, and every index handed to m_tokens[] lies inside the
\* vector: Peek reads m_current, Previous reads m_current - 1 >= 0.
C11_CursorWithinTokens ==
    pc \notin {"Tokenize", "ParseProgram"} =>
        /\ parser.m_tokens = tokens
        /\ tokens[Len(tokens)].type = "EndOfFile"
        /\ parser.m_current \in 0..(Len(tokens) - 1)
        /\ parser.read \subseteq 0..(Len(tokens) - 1)
        /\ \A i \in parser.read : i <= parser.m_current

\* `var x: int = 1 + -1;` parsed to its end: the cursor rests on the
\* EndOfFile token and each of the ten tokens before it was read by an Advance
C11_UnaryParsedToTheEnd ==
    /\ pc = "parsed"
    /\ lexer.source = Src.Unary
    /\ Len(tokens) = 11
    /\ parser.m_current = 10
    /\ parser.read = 0..9

\* C12: the positions of the tokens Tokenize has returned so far, the final
\* EndOfFile token included, strictly increase from each token to the next:
\* a later line, or the same line and a later column.
C12_PositionsStrictlyIncrease ==
    \A i \in 1..(Len(tokens) - 1) :
        \/ tokens[i + 1].line > tokens[i].line
        \/ /\ tokens[i + 1].line = tokens[i].line
           /\ tokens[i + 1].column > tokens[i].column

\* C13: every token NextToken returns, the EndOfFile token aside, carries
\* the line and column of its first byte: the position the lexer is at once
\* the whitespace before the token is skipped, counted from (1,1) with a
\* newline starting the next line at column 1 and any other byte adding one
\* to the column.
C13_PositionOfFirstByte ==
    [][pc = "Tokenize" =>
          LET start == SkipWhitespace(lexer)
              token == tokens'[Len(tokens')]
          IN token.type # "EndOfFile" =>
                /\ token.line = start.line
                /\ token.column = start.column]_vars

\* C14: once Tokenize has returned, the lexemes of its tokens, concatenated
\* in order, are the source without its whitespace and without its `//`
\* line comments; a string literal counts from its opening to its closing
\* quote, blanks inside included.
C14_LexemesJoinToSource ==
    pc # "Tokenize" =>
        LET source == lexer.source
            RECURSIVE Join(_), Stripped(_, _)
            Join(k) == IF k = 0 THEN <<>> ELSE Join(k - 1) \o tokens[k].lexeme
            Stripped(i, in) ==
                IF i > Len(source) THEN <<>>
                ELSE LET c == source[i]
                     IN CASE in = "comment" ->
                               Stripped(i + 1, IF c = "\n" THEN "code" ELSE "comment")
                          [] in = "string" /\ c = "\\" /\ i < Len(source) ->
                               <<c, source[i + 1]>> \o Stripped(i + 2, "string")
                          [] in = "string" ->
                               <<c>> \o Stripped(i + 1, IF c = "\"" THEN "code" ELSE "string")
                          [] c = "\"" -> <<c>> \o Stripped(i + 1, "string")
                          [] c = "/" /\ i < Len(source) /\ source[i + 1] = "/" ->
                               Stripped(i + 2, "comment")
                          [] isspace(c) -> Stripped(i + 1, "code")
                          [] OTHER -> <<c>> \o Stripped(i + 1, "code")
        IN Join(Len(tokens)) = Stripped(1, "code")

\* C15: when the declaration pass has run on a Program, the root scope, the
\* first one made, has no parent and holds the symbol of every top-level
\* variable, function and class declaration that got one, whatever
\* declarations precede it; and the symbol of a declaration in a top-level
\* class body lies in a scope whose parent is the root scope.
C15_DeclarationsInEnclosingScope ==
    (/\ pc \in {"TypeResolutionPass", "ValidationPass", "return", "done"}
     /\ sa.root.nodeType = "Program") =>
        /\ sa.scopes # <<>>
        /\ sa.scopes[1].parent = 0
        /\ \A d \in Range(sa.root.declarations) :
              (/\ d.nodeType \in {"VariableDeclaration", "FunctionDeclaration",
                                  "ClassDeclaration"}
               /\ sa.notes[d.id].symbol # 0)
              => sa.notes[d.id].symbol \in Owned(sa.scopes[1])
        /\ \A c \in Range(sa.root.declarations) :
              (c.nodeType = "ClassDeclaration" /\ c.body.nodeType = "ClassBlock")
              => \A m \in Range(c.body.declarations) :
                    sa.notes[m.id].symbol # 0
                    => \E s \in DOMAIN sa.scopes :
                          /\ sa.notes[m.id].symbol \in Owned(sa.scopes[s])
                          /\ sa.scopes[s].parent = 1

\* C16: after any pass of Analyze, and when it has returned, every scope
\* made during the analysis and every symbol inserted into one still exists:
\* the symbol a declaration node points to, the scope a symbol points to and
\* the parent a scope points to are live objects.
C16_PoppedScopesStayAlive ==
    pc \in {"TypeResolutionPass", "ValidationPass", "return", "done"} =>
        /\ \A s \in DOMAIN sa.scopes :
              /\ sa.scopes[s].alive
              /\ sa.scopes[s].parent # 0 => sa.scopes[sa.scopes[s].parent].alive
              /\ \A sym \in Owned(sa.scopes[s]) : sa.symbols[sym].alive
        /\ \A sym \in DOMAIN sa.symbols :
              sa.symbols[sym].scope # 0 => sa.scopes[sa.symbols[sym].scope].alive
        /\ \A id \in DOMAIN sa.notes :
              sa.notes[id].symbol # 0 => sa.symbols[sa.notes[id].symbol].alive

C18_NameBoundAtMostOnce ==
    (/\ pc \in {"TypeResolutionPass", "ValidationPass", "return", "done"}
     /\ sa.root.nodeType = "Program"
     /\ \A n \in Subtree(sa.root) : n.nodeType # "FunctionDeclaration") =>
        LET lists == {sa.root.declarations}
                     \cup {c.body.declarations : c \in
                             {n \in Subtree(sa.root) : n.nodeType = "ClassDeclaration"}}
            declares(d) == d.nodeType \in {"VariableDeclaration", "ClassDeclaration"}
        IN \A l \in lists : \A i \in 1..Len(l) : \A j \in 1..(i - 1) :
              (/\ declares(l[i]) /\ declares(l[j]) /\ l[j].name = l[i].name
               /\ sa.notes[l[j].id].symbol # 0
               /\ \A k \in 1..(j - 1) : ~(declares(l[k]) /\ l[k].name = l[i].name))
              => /\ sa.errors # <<>>
                 /\ \E s \in DOMAIN sa.scopes :
                       Find(sa.scopes[s], l[i].name) = sa.notes[l[j].id].symbol

\* C19: a call CheckTypeCompatibility(t1, t2) returns true exactly when the
\* two names are identical, or both names are array types `[X]` and `[Y]`
\* (more than two characters, the first `[` and the last `]`) with X
\* compatible with Y; so it returns true for a type and itself, the same
\* for (t2, t1) as for (t1, t2), the same whatever isConst is on either
\* side, and false for int and float, int and [int], [int] and [float].
C19_CompatibleIffSameNameOrArrays ==
    pc = "returned" =>
        LET isArray(n) == Len(n) > 2 /\ n[1] = "[" /\ n[Len(n)] = "]"
            element(n) == SubSeq(n, 2, Len(n) - 1)
            RECURSIVE compatible(_, _)
            compatible(n1, n2) ==
                \/ n1 = n2
                \/ /\ isArray(n1) /\ isArray(n2)
                   /\ compatible(element(n1), element(n2))
            t1 == compat.t1
            t2 == compat.t2
            int == <<"i","n","t">>
            float == <<"f","l","o","a","t">>
            intArray == <<"[","i","n","t","]">>
            floatArray == <<"[","f","l","o","a","t","]">>
        IN /\ compat.result = compatible(t1.name, t2.name)
           /\ t1.name = t2.name => compat.result
           /\ compat.result = CheckTypeCompatibility(t2, t1)
           /\ \A c1 \in BOOLEAN, c2 \in BOOLEAN :
                 compat.result = CheckTypeCompatibility([t1 EXCEPT !.isConst = c1],
                                                        [t2 EXCEPT !.isConst = c2])
           /\ <<t1.name, t2.name>> \in {<<int, float>>, <<int, intArray>>,
                                        <<intArray, floatArray>>}
                 => ~compat.result

\* [int] against [float]: both are array types, the element names differ
C19_IntArrayAgainstFloatArray ==
    /\ pc = "returned"
    /\ compat.t1.name = <<"[","i","n","t","]">>
    /\ compat.t2.name = <<"[","f","l","o","a","t","]">>
    /\ compat.t1.isConst /\ ~compat.t2.isConst
    /\ ~compat.result

\* C20: when the lexer, past the whitespace, is at an operator character,
\* the token it emits is an Operator of two characters if that character
\* and the next one form one of ==, !=, <=, >=, &&, ||, <<, >>, and an
\* Operator of that one character otherwise.
C20_DigraphsMerged ==
    [][pc = "Tokenize" =>
          LET start == SkipWhitespace(lexer)
              source == lexer.source
              at == start.offset + 1
              token == tokens'[Len(tokens')]
              digraphs == {<<"=","=">>, <<"!","=">>, <<"<","=">>, <<">","=">>,
                           <<"&","&">>, <<"|","|">>, <<"<","<">>, <<">",">">>}
          IN (at <= Len(source) /\ IsOperator(source[at])) =>
                /\ token.type = "Operator"
                /\ token.lexeme =
                      IF at + 1 <= Len(source) /\ <<source[at], source[at + 1]>> \in digraphs
                      THEN <<source[at], source[at + 1]>>
                      ELSE <<source[at]>>]_vars


\* C21: every token whose lexeme is a letter or `_` followed by letters,
\* digits or `_` is a Keyword if the lexeme is one of the 21 reserved words
\* var, let, const, fun, class, enum, if, else, for, while, break, continue,
\* return, switch, case, default, int, uint, float, bool, string, and an
\* Identifier otherwise.
C21_ReservedWordsAreKeywords ==
    \A i \in DOMAIN tokens :
        LET lexeme == tokens[i].lexeme
            word == /\ lexeme # <<>>
                    /\ isalpha(lexeme[1]) \/ lexeme[1] = "_"
                    /\ \A k \in DOMAIN lexeme : isalnum(lexeme[k]) \/ lexeme[k] = "_"
            reserved == Str(lexeme) \in
                {"var", "let", "const", "fun", "class", "enum", "if", "else", "for",
                 "while", "break", "continue", "return", "switch", "case", "default",
                 "int", "uint", "float", "bool", "string"}
        IN (word /\ tokens[i].type \in {"Keyword", "Identifier"}) =>
              tokens[i].type = IF reserved THEN "Keyword" ELSE "Identifier"


\* C22: when the lexer, past the whitespace, is at a `"` that opens a string
\* literal with no closing `"` before the end of the input (a `\` takes the
\* byte after it along), the token it emits is classified Unknown, not
\* String.
C22_UnterminatedStringIsUnknown ==
    [][pc = "Tokenize" =>
          LET start == SkipWhitespace(lexer)
              source == lexer.source
              at == start.offset + 1
              token == tokens'[Len(tokens')]
              RECURSIVE closed(_)
              closed(i) ==
                  IF i > Len(source) THEN FALSE
                  ELSE IF source[i] = "\"" THEN TRUE
                  ELSE IF source[i] = "\\" THEN closed(i + 2)
                  ELSE closed(i + 1)
          IN (at <= Len(source) /\ source[at] = "\"" /\ ~closed(at + 1)) =>
                token.type = "Unknown"]_vars


C24_HasErrorsIffAnError ==
    /\ HasErrors(reporter) <=>
          \E i \in DOMAIN GetErrors(reporter) : GetErrors(reporter)[i].severity = "Error"
    /\ \A i \in DOMAIN GetErrors(reporter) :
          GetErrors(reporter)[i].phase = GetPhase(reporter)


\* C25: when an Operator token other than `-` and `!` stands at the start
\* of an operand, directly after another Operator token (as in `= * 5` or
\* `a + * b`), the parser ends in a syntax error.
C25_OnlyMinusAndNotArePrefix ==
    pc \notin {"Tokenize", "ParseProgram"} =>
        ((\E i \in 2..Len(tokens) :
             /\ tokens[i].type = "Operator"
             /\ tokens[i].lexeme \notin {<<"-">>, <<"!">>}
             /\ tokens[i - 1].type = "Operator")
         => /\ pc = "exit"
            /\ parser.stderr # <<>>)


\* C26: when Analyze runs on a Program with a function declared without a
\* return type, the declaration pass does not fail and registers for it a
\* Function symbol of type void, and no missing-return error is reported
\* for that function.
C26_NoReturnTypeMeansVoid ==
    (/\ pc \notin {"Tokenize", "ParseProgram", "parsed", "exit", "DeclarationPass"}
     /\ sa.root.nodeType = "Program") =>
        \A i \in DOMAIN sa.root.declarations :
            LET function == sa.root.declarations[i]
            IN (function.nodeType = "FunctionDeclaration" /\ function.returnType = Null) =>
                  /\ pc # "crashed"
                  /\ ~sa.crashed
                  /\ sa.notes[function.id].symbol # 0
                  /\ sa.symbols[sa.notes[function.id].symbol].kind = "Function"
                  /\ sa.symbols[sa.notes[function.id].symbol].type.name = <<"v","o","i","d">>
                  /\ \A e \in DOMAIN sa.errors :
                        sa.errors[e] # "Function '" \o Str(function.name)
                                         \o "' with return type 'void' lacks return statement"


\* C27: when Analyze has returned for a Program that holds an if, while or
\* for statement whose condition is a number literal (type int, not bool),
\* an error has been reported and the result is false.
C27_NonBoolConditionReported ==
    (/\ pc = "done"
     /\ sa.root.nodeType = "Program"
     /\ \E n \in Subtree(sa.root) :
           /\ n.nodeType \in {"IfStatement", "WhileStatement", "ForStatement"}
           /\ n.condition.nodeType = "Literal"
           /\ n.condition.value # <<>>
           /\ \A k \in DOMAIN n.condition.value : isdigit(n.condition.value[k]))
    => /\ sa.errors # <<>>
       /\ sa.result = "false"


\* C28: when the type-resolution pass has run to its end, every binary
\* expression of the analyzed tree whose two operands have a type has an
\* evaluatedType: bool for the comparison and logical operators, the left
\* operand's type for Assign and the arithmetic operators; and one mismatch
\* error has been reported for each of them whose operand types are not
\* compatible, and none for the others.
C28_BinaryExpressionTyped ==
    pc = "ValidationPass" =>
        LET typeOf(e) ==
                IF e.nodeType = "Literal" THEN GetLiteralType(sa, e).type
                ELSE IF e.nodeType \in {"Identifier", "BinaryExpression"}
                THEN sa.notes[e.id].evaluatedType
                ELSE Null
            typed(n) == typeOf(n.left) # Null /\ typeOf(n.right) # Null
            binaries == {n \in Subtree(sa.root) : n.nodeType = "BinaryExpression" /\ typed(n)}
            compatible(n) == typeOf(n.left).name = typeOf(n.right).name
            mismatches == {e \in DOMAIN sa.errors :
                              sa.errors[e] \in {"Assignment type mismatch",
                                                "Operand type mismatch in binary expression"}}
        IN /\ \A n \in binaries :
                 /\ sa.notes[n.id].evaluatedType # Null
                 /\ sa.notes[n.id].evaluatedType.name =
                       IF n.op \in {"Equal", "NotEqual", "Less", "Greater", "LessEqual",
                                    "GreaterEqual", "LogicalAnd", "LogicalOr"}
                       THEN <<"b","o","o","l">>
                       ELSE typeOf(n.left).name
           /\ Cardinality(mismatches) = Cardinality({n \in binaries : ~compatible(n)})


C30_PrecedenceLadder ==
    LET E == SubSeq(tokens, 6, Len(tokens) - 2)
        relational(t) == t.lexeme \in {<<"<">>, <<">">>, <<"<","=">>, <<">","=">>}
        tight(t) == t.type # "Operator"
                    \/ t.lexeme \in {<<"+">>, <<"-">>, <<"*">>, <<"/">>, <<"%">>}
        chained == \E i \in DOMAIN E : \E j \in (i + 1)..Len(E) :
                      /\ relational(E[i]) /\ relational(E[j])
                      /\ \A k \in (i + 1)..(j - 1) : tight(E[k])
        lexemeOf(op) ==
            CASE op = "Assign" -> <<"=">>
              [] op = "LogicalOr" -> <<"|","|">>
              [] op = "LogicalAnd" -> <<"&","&">>
              [] op = "Equal" -> <<"=","=">>
              [] op = "NotEqual" -> <<"!","=">>
              [] op = "Less" -> <<"<">>
              [] op = "Greater" -> <<">">>
              [] op = "LessEqual" -> <<"<","=">>
              [] op = "GreaterEqual" -> <<">","=">>
              [] op = "Add" -> <<"+">>
              [] op = "Subtract" -> <<"-">>
              [] op = "Multiply" -> <<"*">>
              [] op = "Divide" -> <<"/">>
              [] op = "Modulo" -> <<"%">>
        tier(n) ==
            IF n.nodeType = "BinaryExpression"
            THEN CASE n.op = "Assign" -> 1
                   [] n.op = "LogicalOr" -> 2
                   [] n.op = "LogicalAnd" -> 3
                   [] n.op \in {"Equal", "NotEqual"} -> 4
                   [] n.op \in {"Less", "Greater", "LessEqual", "GreaterEqual"} -> 5
                   [] n.op \in {"Add", "Subtract"} -> 6
                   [] OTHER -> 7
            ELSE IF n.nodeType = "UnaryExpression" THEN 8
            ELSE 9
        RECURSIVE read(_)
        read(n) ==
            IF n.nodeType = "BinaryExpression"
            THEN read(n.left) \o <<lexemeOf(n.op)>> \o read(n.right)
            ELSE IF n.nodeType = "UnaryExpression" THEN <<n.op>> \o read(n.operand)
            ELSE IF n.nodeType = "Identifier" THEN <<n.name>>
            ELSE <<n.value>>
        ladder(n) ==
            IF n.nodeType = "BinaryExpression"
            THEN IF tier(n) = 1 THEN tier(n.left) > 1 /\ tier(n.right) >= 1
                 ELSE IF tier(n) = 5 THEN tier(n.left) > 5 /\ tier(n.right) > 5
                 ELSE tier(n.left) >= tier(n) /\ tier(n.right) > tier(n)
            ELSE IF n.nodeType = "UnaryExpression" THEN tier(n.operand) >= 8
            ELSE TRUE
    IN (pc \in {"parsed", "exit"} /\ ~chained) =>
          /\ pc = "parsed"
          /\ parser.stderr = <<>>
          /\ Len(ast.declarations) = 1
          /\ LET tree == ast.declarations[1].initializer
             IN /\ tree # Null
                /\ read(tree) = [i \in DOMAIN E |-> E[i].lexeme]
                /\ \A n \in Subtree(tree) :
                      /\ n.nodeType \in {"BinaryExpression", "UnaryExpression",
                                         "Identifier", "Literal"}
                      /\ ladder(n)

\* `a - -1 * a`, read as Subtract(a, Multiply(-1, a))
C30_SubtractMultiplyUnary ==
    /\ pc = "parsed"
    /\ Len(tokens) = 13
    /\ ast.declarations[1].initializer.nodeType = "BinaryExpression"
    /\ ast.declarations[1].initializer.op = "Subtract"
    /\ ast.declarations[1].initializer.left.nodeType = "Identifier"
    /\ ast.declarations[1].initializer.right.nodeType = "BinaryExpression"
    /\ ast.declarations[1].initializer.right.op = "Multiply"
    /\ ast.declarations[1].initializer.right.left.nodeType = "UnaryExpression"
    /\ ast.declarations[1].initializer.right.left.operand.nodeType = "Literal"
    /\ ast.declarations[1].initializer.right.right.nodeType = "Identifier"

=============================================================================
